---- MODULE Spec2Model ----
(***************************************************************************)
(* Model of the technical-indicator / composite-scoring pipeline of        *)
(* stock_app_final.py and of the module-level data cache around it.        *)
(*                                                                         *)
(* Numbers.  The program computes with IEEE doubles (numpy / pandas).      *)
(* A double is modelled as a record [k, v]: k = "num" carries the value    *)
(* v / Scale (fixed point, floor rounding), k = "nan", "inf", "ninf" are   *)
(* the IEEE specials, k = "none" is Python's None.  Every arithmetic and   *)
(* comparison operator below follows IEEE semantics for the specials       *)
(* (NaN propagates, comparisons with NaN are false, x/0 is +-inf or NaN    *)
(* as numpy computes it on float64 scalars and Series).                    *)
(***************************************************************************)
EXTENDS Integers, Sequences, FiniteSets, TLC

\* module-level state of stock_app_final.py
VARIABLES
    data_cache,       \* _data_cache: key -> cached value
    cache_timestamp,  \* _cache_timestamp: key -> time of the store
    now               \* datetime.now(), in minutes

Scale == 100 * 100

Num(v)  == [k |-> "num", v |-> v]
I(n)    == Num(n * Scale)
NaN     == [k |-> "nan", v |-> 0]
PInf    == [k |-> "inf", v |-> 0]
NInf    == [k |-> "ninf", v |-> 0]
None    == [k |-> "none", v |-> 0]
\* an exception leaving a function: the value a caller sees when the callee raised
Raise   == [k |-> "raise", v |-> 0]

IsNum(x)  == x.k = "num"
IsNaN(x)  == x.k = "nan"
IsNone(x) == x.k = "none"
IsRaise(x) == x.k = "raise"

Sign(x) == IF x.k = "inf" THEN 1
           ELSE IF x.k = "ninf" THEN -1
           ELSE IF x.v > 0 THEN 1 ELSE IF x.v < 0 THEN -1 ELSE 0

Signed(s) == IF s > 0 THEN PInf ELSE IF s < 0 THEN NInf ELSE NaN

AbsI(n) == IF n < 0 THEN -n ELSE n

\* floor(a * b / Scale) without leaving the 32-bit range for the operands used
MulS(a, b) == (a \div Scale) * b + (a % Scale) * (b \div Scale)
              + ((a % Scale) * (b % Scale)) \div Scale

\* floor(a * Scale / b) for b > 0, computed in two steps of 100
DivPos(a, b) ==
    LET q  == a \div b
        r  == a % b
        q1 == (r * 100) \div b
        r1 == (r * 100) % b
    IN  q * Scale + q1 * 100 + (r1 * 100) \div b

DivS(a, b) == IF b > 0 THEN DivPos(a, b) ELSE DivPos(-a, -b)

FNeg(x) == IF x.k = "num" THEN Num(-x.v)
           ELSE IF x.k = "inf" THEN NInf
           ELSE IF x.k = "ninf" THEN PInf
           ELSE NaN

FAdd(x, y) ==
    IF x.k = "num" /\ y.k = "num" THEN Num(x.v + y.v)
    ELSE IF x.k \in {"nan", "none"} \/ y.k \in {"nan", "none"} THEN NaN
    ELSE IF x.k = "num" THEN y
    ELSE IF y.k = "num" THEN x
    ELSE IF x.k = y.k THEN x
    ELSE NaN

FSub(x, y) == FAdd(x, FNeg(y))

FMul(x, y) ==
    IF x.k = "num" /\ y.k = "num" THEN Num(MulS(x.v, y.v))
    ELSE IF x.k \in {"nan", "none"} \/ y.k \in {"nan", "none"} THEN NaN
    ELSE Signed(Sign(x) * Sign(y))

FDiv(x, y) ==
    IF x.k \in {"nan", "none"} \/ y.k \in {"nan", "none"} THEN NaN
    ELSE IF x.k = "num" /\ y.k = "num"
         THEN IF y.v = 0 THEN Signed(Sign(x)) ELSE Num(DivS(x.v, y.v))
    ELSE IF x.k = "num" THEN Num(0)
    ELSE IF y.k = "num" THEN Signed(Sign(x) * (IF y.v < 0 THEN -1 ELSE 1))
    ELSE NaN

\* x * n / d for a decimal literal n/d of the source (0.9 is 9/10, 0.382 is 382/1000)
FScale(x, n, d) ==
    IF x.k = "num" THEN Num((x.v * n) \div d)
    ELSE IF x.k \in {"nan", "none"} THEN NaN
    ELSE Signed(Sign(x) * n)

FLt(x, y) ==
    IF x.k \in {"nan", "none"} \/ y.k \in {"nan", "none"} THEN FALSE
    ELSE IF x.k = "num" /\ y.k = "num" THEN x.v < y.v
    ELSE IF x.k = y.k THEN FALSE
    ELSE x.k = "ninf" \/ y.k = "inf"

FGt(x, y) == FLt(y, x)

FLe(x, y) ==
    IF x.k \in {"nan", "none"} \/ y.k \in {"nan", "none"} THEN FALSE
    ELSE IF x.k = "num" /\ y.k = "num" THEN x.v <= y.v
    ELSE x.k = y.k \/ x.k = "ninf" \/ y.k = "inf"

FGe(x, y) == FLe(y, x)

FAbs(x) == IF x.k = "num" THEN Num(AbsI(x.v))
           ELSE IF x.k \in {"inf", "ninf"} THEN PInf
           ELSE NaN

\* Python's builtin max(a, b) and min(a, b): b replaces a only if b > a (b < a)
PyMax(a, b) == IF FGt(b, a) THEN b ELSE a
PyMin(a, b) == IF FLt(b, a) THEN b ELSE a

\* Python truthiness of a float: only 0.0 and None are false, NaN is true
Truthy(x) == ~(x.k = "none" \/ (x.k = "num" /\ x.v = 0))

(***************************************************************************)
(* pandas / numpy primitives used by the source, on sequences of doubles.  *)
(* Reductions skip NaN (skipna=True); rolling windows need `window`        *)
(* non-NaN observations (min_periods = window).                            *)
(***************************************************************************)
MinI(a, b) == IF a < b THEN a ELSE b
MaxI(a, b) == IF a > b THEN a ELSE b

\* s.tail(k)
TailN(s, k) == SubSeq(s, Len(s) - MinI(k, Len(s)) + 1, Len(s))

\* s.iloc[-k]: IndexError when the series has fewer than k elements
ILocNeg(s, k) == IF Len(s) < k THEN Raise ELSE s[Len(s) - k + 1]

\* sum of s[lo..hi], NaN skipped; the range is halved to keep the evaluation shallow
RECURSIVE FoldAdd(_, _, _)
FoldAdd(s, lo, hi) ==
    IF lo > hi THEN Num(0)
    ELSE IF lo = hi THEN (IF IsNaN(s[lo]) THEN Num(0) ELSE s[lo])
    ELSE LET mid == (lo + hi) \div 2
         IN  FAdd(FoldAdd(s, lo, mid), FoldAdd(s, mid + 1, hi))

\* number of non-NaN observations
CountObs(s) == Cardinality({i \in 1..Len(s) : ~IsNaN(s[i])})

FDivInt(x, n) == IF x.k = "num" THEN Num(x.v \div n) ELSE x

\* Series.mean()
Mean(s) == LET c == CountObs(s)
           IN  IF c = 0 THEN NaN ELSE FDivInt(FoldAdd(s, 1, Len(s)), c)

Obs(s) == {s[i] : i \in {j \in 1..Len(s) : ~IsNaN(s[j])}}

\* Series.min() / Series.max(): NaN skipped, NaN when nothing is left
SMin(s) == IF Obs(s) = {} THEN NaN
           ELSE CHOOSE x \in Obs(s) : \A y \in Obs(s) : FLe(x, y)
SMax(s) == IF Obs(s) = {} THEN NaN
           ELSE CHOOSE x \in Obs(s) : \A y \in Obs(s) : FGe(x, y)

\* integer square root, by bisection
RECURSIVE ISqrtB(_, _, _)
ISqrtB(n, lo, hi) ==
    IF lo >= hi THEN lo
    ELSE LET mid == (lo + hi + 1) \div 2
         IN  IF mid * mid <= n THEN ISqrtB(n, mid, hi) ELSE ISqrtB(n, lo, mid - 1)

ISqrt(n) == ISqrtB(n, 0, MinI(n, 46340))

\* sqrt of a double; the radicand is scaled before the root when it fits
FSqrt(x) ==
    IF x.k = "num"
    THEN IF x.v < 0 THEN NaN
         ELSE IF x.v < 200000 THEN Num(ISqrt(x.v * Scale))
         ELSE Num(ISqrt(x.v) * 100)
    ELSE IF x.k = "inf" THEN PInf
    ELSE NaN

SqDev(s, m) == [i \in 1..Len(s) |->
                  IF IsNaN(s[i]) THEN NaN ELSE FMul(FSub(s[i], m), FSub(s[i], m))]

HasInf(s) == \E i \in 1..Len(s) : s[i].k \in {"inf", "ninf"}

\* Series.std(): sample standard deviation (ddof = 1) of the non-NaN values;
\* an infinite value makes the deviations inf - inf, hence NaN
Std(s) == IF CountObs(s) < 2 \/ HasInf(s) THEN NaN
          ELSE FSqrt(FDivInt(FoldAdd(SqDev(s, Mean(s)), 1, Len(s)), CountObs(s) - 1))

\* s.rolling(w).mean().iloc[-1] and s.rolling(w).std().iloc[-1]
RollingMeanLast(s, w) ==
    IF Len(s) = 0 THEN Raise
    ELSE IF Len(s) < w \/ CountObs(TailN(s, w)) < w THEN NaN
    ELSE Mean(TailN(s, w))

RollingStdLast(s, w) ==
    IF Len(s) = 0 THEN Raise
    ELSE IF Len(s) < w \/ CountObs(TailN(s, w)) < w THEN NaN
    ELSE Std(TailN(s, w))

\* s.diff(): the first element is NaN
Diff(s) == [i \in 1..Len(s) |-> IF i = 1 THEN NaN ELSE FSub(s[i], s[i - 1])]

\* s.pct_change().dropna(): s[i] / s[i-1] - 1, NaN results dropped
PctChange(s) == [i \in 1..Len(s) |->
                   IF i = 1 THEN NaN ELSE FSub(FDiv(s[i], s[i - 1]), I(1))]

DropNa(s) == SelectSeq(s, LAMBDA x : ~IsNaN(x))

\* one step of pandas' ewm(span).mean() (adjust=True, ignore_na=False) once an
\* observation has been seen: st is [w: weighted average so far, old: weight of
\* the past], cur the next value, fn/fd the decay factor 1 - alpha
EwmStep(st, cur, fn, fd) ==
    LET old1 == (st.old * fn) \div fd
    IN  IF IsNaN(cur) THEN [w |-> st.w, old |-> old1]
        ELSE [w   |-> IF st.w = cur THEN st.w
                      ELSE FDiv(FAdd(FMul(Num(old1), st.w), cur), Num(old1 + Scale)),
              old |-> old1 + Scale]

RECURSIVE EwmAcc(_, _, _, _)
EwmAcc(s, span, st, acc) ==
    IF Len(acc) >= Len(s) THEN acc
    ELSE LET cur == s[Len(acc) + 1]
         IN  IF IsNaN(st.w)
             THEN EwmAcc(s, span, [w |-> cur, old |-> st.old], Append(acc, cur))
             ELSE LET st1 == EwmStep(st, cur, span - 1, span + 1)
                  IN  EwmAcc(s, span, st1, Append(acc, st1.w))

\* s.ewm(span=span).mean() as a whole series
EwmMean(s, span) == EwmAcc(s, span, [w |-> NaN, old |-> Scale], << >>)

(***************************************************************************)
(* The bar series (the DataFrame df of the source).                        *)
(***************************************************************************)
Col(df, c) == [i \in 1..Len(df) |-> df[i][c]]
Close(df)  == Col(df, "Close")
High(df)   == Col(df, "High")
Low(df)    == Col(df, "Low")
Volume(df) == Col(df, "Volume")

(***************************************************************************)
(* Technical indicators (stock_app_final.py, "技术指标计算").                *)
(* Each function is split into the series computation and an operator      *)
(* that takes the computed values as parameters and holds the branches.    *)
(***************************************************************************)
\* delta.where(delta > 0, 0) and -delta.where(delta < 0, 0)
Gains(delta)  == [i \in 1..Len(delta) |-> IF FGt(delta[i], I(0)) THEN delta[i] ELSE I(0)]
Losses(delta) == [i \in 1..Len(delta) |->
                    FNeg(IF FLt(delta[i], I(0)) THEN delta[i] ELSE I(0))]

\* rs = gain / loss; rsi = 100 - (100 / (1 + rs)); a Raise input is the IndexError
\* of rsi.iloc[-1] on an empty frame, caught by "except: return 50.0"
RsiValue(gain, loss) ==
    IF IsRaise(gain) \/ IsRaise(loss) THEN I(50)
    ELSE FSub(I(100), FDiv(I(100), FAdd(I(1), FDiv(gain, loss))))

calculate_rsi(df) ==
    RsiValue(RollingMeanLast(Gains(Diff(Close(df))), 14),
             RollingMeanLast(Losses(Diff(Close(df))), 14))

SeqSub(a, b) == [i \in 1..Len(a) |-> FSub(a[i], b[i])]

MacdRecord(macd_line, signal_line) ==
    [macd      |-> ILocNeg(macd_line, 1),
     signal    |-> ILocNeg(signal_line, 1),
     histogram |-> FSub(ILocNeg(macd_line, 1), ILocNeg(signal_line, 1))]

MacdFromLine(macd_line) == MacdRecord(macd_line, EwmMean(macd_line, 9))

calculate_macd(df) ==
    IF Len(df) = 0
    THEN [macd |-> I(0), signal |-> I(0), histogram |-> I(0)]   \* except branch
    ELSE MacdFromLine(SeqSub(EwmMean(Close(df), 12), EwmMean(Close(df), 26)))

\* the except branch of calculate_bollinger_bands: it reads the last close again
BollingerFallback(current_price) ==
    IF IsRaise(current_price)
    THEN [upper |-> Raise, lower |-> Raise]
    ELSE [upper |-> FScale(current_price, 11, 10),
          lower |-> FScale(current_price, 9, 10)]

\* upper_band = sma + std * std_dev, lower_band = sma - std * std_dev (std_dev = 2)
BollingerBands(sma, std, current_price) ==
    IF IsRaise(sma) \/ IsRaise(std)
    THEN BollingerFallback(current_price)
    ELSE [upper |-> FAdd(sma, FScale(std, 2, 1)),
          lower |-> FSub(sma, FScale(std, 2, 1))]

\* returns (upper, lower); upper = lower = Raise when the except branch itself raises
calculate_bollinger_bands(df) ==
    BollingerBands(RollingMeanLast(Close(df), 20), RollingStdLast(Close(df), 20),
                   ILocNeg(Close(df), 1))

MacdTrend(macd_data) ==
    IF FGt(macd_data.macd, macd_data.signal) THEN "bullish"
    ELSE IF FLt(macd_data.macd, macd_data.signal) THEN "bearish"
    ELSE "neutral"

calculate_macd_signal(df) == MacdTrend(calculate_macd(df))

BollingerPosition(bb, current_price) ==
    IF IsRaise(bb.upper) \/ IsRaise(current_price) THEN "normal"  \* except: "normal"
    ELSE IF ~IsNone(bb.upper) /\ ~IsNone(bb.lower)
         THEN IF FLe(current_price, bb.lower) THEN "oversold"
              ELSE IF FGe(current_price, bb.upper) THEN "overbought"
              ELSE "normal"
         ELSE "normal"

calculate_bollinger_signal(df) ==
    BollingerPosition(calculate_bollinger_bands(df), ILocNeg(Close(df), 1))

VolumeBucket(recent_volume, avg_volume) ==
    IF FGt(recent_volume, FScale(avg_volume, 15, 10)) THEN I(20)
    ELSE IF FGt(recent_volume, avg_volume) THEN I(15)
    ELSE I(10)

calculate_volume_score(df) ==
    IF Len(df) < 5 THEN I(10)
    ELSE VolumeBucket(Mean(TailN(Volume(df), 5)), Mean(Volume(df)))

EnhancedRsiBucket(rsi) ==
    IF IsNone(rsi) THEN I(0)
    ELSE IF FLe(I(30), rsi) /\ FLe(rsi, I(70)) THEN I(20)
    ELSE IF FLt(rsi, I(30)) THEN I(30)
    ELSE IF FGt(rsi, I(70)) THEN I(10)
    ELSE I(0)

EnhancedMacdBucket(macd_signal) ==
    IF macd_signal = "bullish" THEN I(25)
    ELSE IF macd_signal = "bearish" THEN I(5)
    ELSE I(15)

EnhancedBollingerBucket(bb_signal) ==
    IF bb_signal = "oversold" THEN I(20)
    ELSE IF bb_signal = "overbought" THEN I(5)
    ELSE I(15)

calculate_enhanced_technical_score(df) ==
    PyMin(FAdd(FAdd(FAdd(EnhancedRsiBucket(calculate_rsi(df)),
                         EnhancedMacdBucket(calculate_macd_signal(df))),
                    EnhancedBollingerBucket(calculate_bollinger_signal(df))),
               calculate_volume_score(df)),
          I(100))

\* (a - b) / b * 100
PctMove(a, b) == FScale(FDiv(FSub(a, b), b), 100, 1)

TrendBucket(trend) ==
    IF FGt(trend, I(5)) THEN I(40)
    ELSE IF FGt(trend, I(0)) THEN I(30)
    ELSE IF FGt(trend, I(-5)) THEN I(20)
    ELSE I(10)

calculate_price_trend_score(df) ==
    IF Len(df) < 5 THEN I(50)
    ELSE TrendBucket(PctMove(ILocNeg(Close(df), 1), ILocNeg(Close(df), 5)))

\* round(x, 1): to the nearest tenth, ties to even
RoundTo(v, unit) ==
    IF 2 * (v % unit) < unit THEN (v \div unit) * unit
    ELSE IF 2 * (v % unit) > unit THEN (v \div unit + 1) * unit
    ELSE IF (v \div unit) % 2 = 0 THEN (v \div unit) * unit
    ELSE (v \div unit + 1) * unit

Round1(x) == IF x.k # "num" THEN x ELSE Num(RoundTo(x.v, Scale \div 10))

\* variant: the trend term drawn from the clock, as a time-seeded generator would
calculate_overall_score_clocked(df, technical_score) ==
    PyMin(Round1(FAdd(FScale(technical_score, 6, 10), FScale(I(10 * now), 4, 10))),
          I(100))

calculate_overall_score_enhanced(df, technical_score) ==
    PyMin(Round1(FAdd(FScale(technical_score, 6, 10),
                      FScale(calculate_price_trend_score(df), 4, 10))),
          I(100))

(***************************************************************************)
(* Support / resistance estimator.                                         *)
(***************************************************************************)
\* pd.isna(x)
IsNa(x) == x.k \in {"nan", "none"}

\* np.mean of a five-element list: the plain sum over 5, NaN not skipped
NpMean5(a, b, c, d, e) == FDivInt(FAdd(FAdd(FAdd(FAdd(a, b), c), d), e), 5)

\* current_price = df['Close'].iloc[-1]; return current_price * n/d.  The same two
\* lines are the except branch, so an IndexError here leaves the function
LastCloseTimes(current_price, n, d) ==
    IF IsRaise(current_price) THEN Raise ELSE FScale(current_price, n, d)

\* variant: no pd.isna guard before the five candidates are averaged
SupportLevel_unguarded(current_price, ma20, ma50, recent_low, high, low) ==
    NpMean5(ma20, ma50, recent_low,
            FSub(high, FScale(FSub(high, low), 382, 1000)),
            FSub(high, FScale(FSub(high, low), 5, 10)))

SupportLevel(current_price, ma20, ma50, recent_low, high, low) ==
    IF IsNa(ma20) \/ IsNa(ma50) \/ IsNa(recent_low)
    THEN LastCloseTimes(current_price, 90, 100)
    ELSE NpMean5(ma20, ma50, recent_low,
                 FSub(high, FScale(FSub(high, low), 382, 1000)),     \* fib_38
                 FSub(high, FScale(FSub(high, low), 5, 10)))         \* fib_50

\* variant: rolling(50) taken whatever the length
MA50_always(df) == RollingMeanLast(Close(df), 50)

\* ma50 = rolling(50).mean().iloc[-1] if len(df) >= 50 else ma20
MA50(df) == IF Len(df) >= 50 THEN RollingMeanLast(Close(df), 50)
            ELSE RollingMeanLast(Close(df), 20)

\* variant: the short-series fallback reads the previous close, iloc[-2]
calculate_smart_support_prev_close(df) ==
    IF Len(df) < 20
    THEN LastCloseTimes(ILocNeg(Close(df), 2), 90, 100)
    ELSE SupportLevel(ILocNeg(Close(df), 1),
                      RollingMeanLast(Close(df), 20),
                      MA50(df),
                      SMin(TailN(Low(df), MinI(10, Len(df)))),
                      SMax(TailN(High(df), MinI(20, Len(df)))),
                      SMin(TailN(Low(df), MinI(20, Len(df)))))

calculate_smart_support(df) ==
    IF Len(df) < 20
    THEN LastCloseTimes(ILocNeg(Close(df), 1), 90, 100)
    ELSE SupportLevel(ILocNeg(Close(df), 1),
                      RollingMeanLast(Close(df), 20),
                      MA50(df),
                      SMin(TailN(Low(df), MinI(10, Len(df)))),
                      SMax(TailN(High(df), MinI(20, Len(df)))),
                      SMin(TailN(Low(df), MinI(20, Len(df)))))

ResistanceLevel(current_price, ma20, ma50, recent_high, high, low) ==
    IF IsNa(ma20) \/ IsNa(ma50) \/ IsNa(recent_high)
    THEN LastCloseTimes(current_price, 110, 100)
    ELSE NpMean5(ma20, ma50, recent_high,
                 FAdd(high, FScale(FSub(high, low), 382, 1000)),     \* fib_138
                 FAdd(high, FScale(FSub(high, low), 5, 10)))         \* fib_150

\* variant: the last-close fallback applies below 50 bars
calculate_smart_resistance_below_50(df) ==
    IF Len(df) < 50
    THEN LastCloseTimes(ILocNeg(Close(df), 1), 110, 100)
    ELSE ResistanceLevel(ILocNeg(Close(df), 1),
                         RollingMeanLast(Close(df), 20),
                         MA50(df),
                         SMax(TailN(High(df), MinI(10, Len(df)))),
                         SMax(TailN(High(df), MinI(20, Len(df)))),
                         SMin(TailN(Low(df), MinI(20, Len(df)))))

calculate_smart_resistance(df) ==
    IF Len(df) < 20
    THEN LastCloseTimes(ILocNeg(Close(df), 1), 110, 100)
    ELSE ResistanceLevel(ILocNeg(Close(df), 1),
                         RollingMeanLast(Close(df), 20),
                         MA50(df),
                         SMax(TailN(High(df), MinI(10, Len(df)))),
                         SMax(TailN(High(df), MinI(20, Len(df)))),
                         SMin(TailN(Low(df), MinI(20, Len(df)))))

(***************************************************************************)
(* Signal generator.  Labels: strong_buy = 强烈买入, buy = 建议买入,          *)
(* hold = 观望, caution = 注意风险, near_support = 接近支撑位,                 *)
(* near_resistance = 接近阻力位, rsi_oversold = RSI超卖,                      *)
(* rsi_overbought = RSI超买, signal_failed = 信号生成失败.                    *)
(***************************************************************************)
\* analyze_stock_enhanced: the suggestion string chosen from overall_score
SuggestionLabel(overall_score) ==
    IF FGe(overall_score, I(80)) THEN "strong_buy"
    ELSE IF FGe(overall_score, I(60)) THEN "buy"
    ELSE IF FGe(overall_score, I(40)) THEN "hold"
    ELSE "caution"

\* variant: the thresholds tested with > instead of >=
ScoreLabel_strict(overall_score) ==
    IF FGt(overall_score, I(80)) THEN "strong_buy"
    ELSE IF FGt(overall_score, I(60)) THEN "buy"
    ELSE IF FGt(overall_score, I(40)) THEN "hold"
    ELSE "caution"

ScoreLabel(overall_score) ==
    IF FGe(overall_score, I(80)) THEN "strong_buy"
    ELSE IF FGe(overall_score, I(60)) THEN "buy"
    ELSE IF FGe(overall_score, I(40)) THEN "hold"
    ELSE "caution"

LevelTags(current_price, support, resistance) ==
    IF Truthy(support) /\ Truthy(resistance)
    THEN IF FLe(current_price, FScale(support, 102, 100)) THEN << "near_support" >>
         ELSE IF FGe(current_price, FScale(resistance, 98, 100))
              THEN << "near_resistance" >>
              ELSE << >>
    ELSE << >>

RsiTags(rsi) ==
    IF Truthy(rsi)
    THEN IF FLt(rsi, I(30)) THEN << "rsi_oversold" >>
         ELSE IF FGt(rsi, I(70)) THEN << "rsi_overbought" >>
         ELSE << >>
    ELSE << >>

SignalList(current_price, support, resistance, overall_score, rsi) ==
    IF IsRaise(current_price) THEN << "signal_failed" >>     \* except branch
    ELSE << ScoreLabel(overall_score) >>
           \o LevelTags(current_price, support, resistance)
           \o RsiTags(rsi)

generate_enhanced_signals(df, support, resistance, overall_score) ==
    SignalList(ILocNeg(Close(df), 1), support, resistance, overall_score,
               calculate_rsi(df))

(***************************************************************************)
(* AI score ("AI选股算法"): four sub-scores and a strategy weight vector.    *)
(***************************************************************************)
TechRsiBucket(rsi) ==
    IF IsNone(rsi) THEN I(0)
    ELSE IF FLe(I(30), rsi) /\ FLe(rsi, I(70)) THEN I(25)
    ELSE IF FLt(rsi, I(30)) THEN I(35)
    ELSE IF FGt(rsi, I(70)) THEN I(15)
    ELSE I(0)

TechMacdBucket(macd_data) ==
    IF FGt(macd_data.macd, macd_data.signal) THEN I(25)
    ELSE IF FLt(macd_data.macd, macd_data.signal) THEN I(15)
    ELSE I(20)

TechBollingerBucket(bb, current_price) ==
    IF ~IsNone(bb.upper) /\ ~IsNone(bb.lower)
    THEN IF FLe(current_price, FScale(bb.lower, 102, 100)) THEN I(25)
         ELSE IF FGe(current_price, FScale(bb.upper, 98, 100)) THEN I(15)
         ELSE I(20)
    ELSE I(0)

\* the tuple unpacking of calculate_bollinger_bands raises on an empty frame:
\* except: return 50
TechTotal(s_rsi, s_macd, bb, current_price, volume_score) ==
    IF IsRaise(bb.upper) \/ IsRaise(current_price) THEN I(50)
    ELSE PyMin(FAdd(FAdd(FAdd(s_rsi, s_macd), TechBollingerBucket(bb, current_price)),
                    volume_score),
               I(100))

calculate_technical_score(df) ==
    TechTotal(TechRsiBucket(calculate_rsi(df)),
              TechMacdBucket(calculate_macd(df)),
              calculate_bollinger_bands(df),
              ILocNeg(Close(df), 1),
              calculate_volume_score(df))

\* IndexError of iloc[-6] / iloc[-21] on a short frame: except: return 50
MomentumBucket(last, c6, c21) ==
    IF IsRaise(last) \/ IsRaise(c6) \/ IsRaise(c21) THEN I(50)
    ELSE IF FGt(PctMove(last, c6), I(0)) /\ FGt(PctMove(last, c21), I(0)) THEN I(80)
    ELSE IF FGt(PctMove(last, c6), I(0)) /\ FLt(PctMove(last, c21), I(0)) THEN I(60)
    ELSE IF FLt(PctMove(last, c6), I(0)) /\ FGt(PctMove(last, c21), I(0)) THEN I(40)
    ELSE I(20)

calculate_momentum_score(df) ==
    IF Len(df) < 20 THEN I(50)
    ELSE MomentumBucket(ILocNeg(Close(df), 1), ILocNeg(Close(df), 6),
                        ILocNeg(Close(df), 21))

\* s.cumprod()
RECURSIVE CumProdAcc(_, _)
CumProdAcc(s, acc) ==
    IF Len(acc) >= Len(s) THEN acc
    ELSE IF Len(acc) = 0 THEN CumProdAcc(s, << s[1] >>)
    ELSE CumProdAcc(s, Append(acc, FMul(acc[Len(acc)], s[Len(acc) + 1])))

CumProd(s) == CumProdAcc(s, << >>)

\* the larger of the running maximum m and the next value x, NaN skipped
RunMax(m, x) == IF IsNaN(x) THEN m
                ELSE IF IsNaN(m) \/ FGt(x, m) THEN x ELSE m

\* s.expanding().max(): the maximum of the non-NaN values seen so far
RECURSIVE ExpandingMaxAcc(_, _)
ExpandingMaxAcc(s, acc) ==
    IF Len(acc) >= Len(s) THEN acc
    ELSE IF Len(acc) = 0 THEN ExpandingMaxAcc(s, << RunMax(NaN, s[1]) >>)
    ELSE ExpandingMaxAcc(s, Append(acc, RunMax(acc[Len(acc)], s[Len(acc) + 1])))

ExpandingMax(s) == ExpandingMaxAcc(s, << >>)

\* returns = df['Close'].pct_change().dropna()
Returns(df) == DropNa(PctChange(Close(df)))

\* returns.std() * 100
Volatility(df) == FScale(Std(Returns(df)), 100, 1)

OnePlus(returns) == [i \in 1..Len(returns) |-> FAdd(I(1), returns[i])]

\* drawdown = (cumulative - running_max) / running_max * 100
Drawdown(cumulative, running_max) ==
    [i \in 1..Len(cumulative) |-> PctMove(cumulative[i], running_max[i])]

DrawdownOf(cumulative) == Drawdown(cumulative, ExpandingMax(cumulative))

\* variant: the two component scores taken without their max(0, ...) floor
RiskFrom_unfloored(volatility, max_drawdown) ==
    FDivInt(FAdd(FSub(I(100), FScale(volatility, 2, 1)),
                 FSub(I(100), max_drawdown)), 2)

\* max(0, 100 - volatility * 2), max(0, 100 - max_drawdown), averaged
RiskFrom(volatility, max_drawdown) ==
    FDivInt(FAdd(PyMax(I(0), FSub(I(100), FScale(volatility, 2, 1))),
                 PyMax(I(0), FSub(I(100), max_drawdown))), 2)

calculate_risk_score(df) ==
    IF Len(df) < 20 THEN I(50)
    ELSE RiskFrom(Volatility(df), FAbs(SMin(DrawdownOf(CumProd(OnePlus(Returns(df)))))))

(***************************************************************************)
(* calculate_strategy_adjustment: one operator per strategy branch.  The   *)
(* integer bonus points are summed and capped with min(score, 60).         *)
(***************************************************************************)
GrowthPoints(short_change, medium_change) ==
    IF FGt(short_change, I(10)) /\ FGt(medium_change, I(15)) THEN 40
    ELSE IF FGt(short_change, I(5)) /\ FGt(medium_change, I(10)) THEN 30
    ELSE IF FGt(short_change, I(0)) /\ FGt(medium_change, I(5)) THEN 20
    ELSE IF FGt(short_change, I(0)) \/ FGt(medium_change, I(0)) THEN 10
    ELSE 0

VolumeConfirmPoints(recent_volume, avg_volume) ==
    IF FGt(recent_volume, FScale(avg_volume, 2, 1)) THEN 20
    ELSE IF FGt(recent_volume, FScale(avg_volume, 15, 10)) THEN 15
    ELSE IF FGt(recent_volume, avg_volume) THEN 10
    ELSE 0

\* short_change: 5-bar move (0 below 6 bars); medium_change: 20-bar move (0 below 21)
ShortChange(df)  == IF Len(df) >= 6
                    THEN PctMove(ILocNeg(Close(df), 1), ILocNeg(Close(df), 6)) ELSE I(0)
MediumChange(df) == IF Len(df) >= 21
                    THEN PctMove(ILocNeg(Close(df), 1), ILocNeg(Close(df), 21)) ELSE I(0)

\* strategy == "momentum"
StrategyMomentum(df) ==
    IF Len(df) >= 10
    THEN PyMin(I(GrowthPoints(ShortChange(df), MediumChange(df))
                 + VolumeConfirmPoints(Mean(TailN(Volume(df), 5)), Mean(Volume(df)))),
               I(60))
    ELSE PyMin(I(0), I(60))

MA20DiscountPoints(current_price, ma20) ==
    IF FLt(current_price, FScale(ma20, 8, 10)) THEN 35
    ELSE IF FLt(current_price, FScale(ma20, 9, 10)) THEN 25
    ELSE IF FLt(current_price, FScale(ma20, 95, 100)) THEN 15
    ELSE IF FLt(current_price, ma20) THEN 10
    ELSE 0

MA50DiscountPoints(current_price, ma50) ==
    IF FLt(current_price, FScale(ma50, 85, 100)) THEN 25
    ELSE IF FLt(current_price, FScale(ma50, 95, 100)) THEN 15
    ELSE IF FLt(current_price, ma50) THEN 10
    ELSE 0

LowRiskPoints(volatility) ==
    IF FLt(volatility, I(15)) THEN 20
    ELSE IF FLt(volatility, I(25)) THEN 15
    ELSE IF FLt(volatility, I(35)) THEN 10
    ELSE 0

\* variant: the three components summed without the min(score, 60) cap
StrategyValue_uncapped(df) ==
    IF Len(df) >= 20
    THEN I(MA20DiscountPoints(ILocNeg(Close(df), 1), RollingMeanLast(Close(df), 20))
           + MA50DiscountPoints(ILocNeg(Close(df), 1), MA50(df))
           + LowRiskPoints(Volatility(df)))
    ELSE I(0)

\* strategy == "value"
StrategyValue(df) ==
    IF Len(df) >= 20
    THEN PyMin(I(MA20DiscountPoints(ILocNeg(Close(df), 1), RollingMeanLast(Close(df), 20))
                 + MA50DiscountPoints(ILocNeg(Close(df), 1), MA50(df))
                 + LowRiskPoints(Volatility(df))),
               I(60))
    ELSE PyMin(I(0), I(60))

InflowPoints(volume_ratio) ==
    IF FGt(volume_ratio, I(4)) THEN 40
    ELSE IF FGt(volume_ratio, I(3)) THEN 35
    ELSE IF FGt(volume_ratio, I(2)) THEN 25
    ELSE IF FGt(volume_ratio, FScale(I(1), 15, 10)) THEN 15
    ELSE IF FGt(volume_ratio, I(1)) THEN 10
    ELSE 0

\* volume_ratio = recent_volume / avg_volume if avg_volume > 0 else 1
VolumeRatio(recent_volume, avg_volume) ==
    IF FGt(avg_volume, I(0)) THEN FDiv(recent_volume, avg_volume) ELSE I(1)

BreakoutPoints(recent_high, prev_high) ==
    IF FGt(recent_high, FScale(prev_high, 105, 100)) THEN 20
    ELSE IF FGt(recent_high, FScale(prev_high, 102, 100)) THEN 15
    ELSE IF FGt(recent_high, prev_high) THEN 10
    ELSE 0

\* all(recent_closes.iloc[i] >= recent_closes.iloc[i-1] for i in range(1, len))
NonDecreasing(s) == \A i \in 2..Len(s) : FGe(s[i], s[i - 1])

RisingPoints(recent_closes) ==
    IF NonDecreasing(recent_closes) THEN 20
    ELSE IF FGt(recent_closes[Len(recent_closes)], recent_closes[1]) THEN 10
    ELSE 0

\* strategy == "volume"
StrategyVolume(df) ==
    IF Len(df) >= 10
    THEN PyMin(I(InflowPoints(VolumeRatio(Mean(TailN(Volume(df), 5)), Mean(Volume(df))))
                 + BreakoutPoints(SMax(TailN(High(df), 5)),
                                  SMax(SubSeq(High(df), Len(df) - 9, Len(df) - 5)))
                 + RisingPoints(TailN(Close(df), 5))),
               I(60))
    ELSE PyMin(I(0), I(60))

FairPricePoints(ratio) ==
    IF FLe(FScale(I(1), 95, 100), ratio) /\ FLe(ratio, FScale(I(1), 105, 100)) THEN 20
    ELSE IF FLe(FScale(I(1), 9, 10), ratio) /\ FLe(ratio, FScale(I(1), 11, 10)) THEN 15
    ELSE 10

StabilityPoints(volatility) ==
    IF FLt(volatility, I(20)) THEN 20
    ELSE IF FLt(volatility, I(30)) THEN 15
    ELSE 10

SteadyTrendPoints(recent_trend) ==
    IF FLe(I(5), recent_trend) /\ FLe(recent_trend, I(15)) THEN 20
    ELSE IF FLe(I(0), recent_trend) /\ FLe(recent_trend, I(20)) THEN 15
    ELSE 10

\* the else branch: balanced / default strategy
StrategyBalanced(df) ==
    IF Len(df) >= 20
    THEN PyMin(I(FairPricePoints(FDiv(ILocNeg(Close(df), 1),
                                      RollingMeanLast(Close(df), 20)))
                 + StabilityPoints(Volatility(df))
                 + SteadyTrendPoints(PctMove(ILocNeg(Close(df), 1),
                                             ILocNeg(Close(df), 10)))),
               I(60))
    ELSE PyMin(I(0), I(60))

calculate_strategy_adjustment(df, strategy) ==
    IF strategy = "momentum" THEN StrategyMomentum(df)
    ELSE IF strategy = "value" THEN StrategyValue(df)
    ELSE IF strategy = "volume" THEN StrategyVolume(df)
    ELSE StrategyBalanced(df)

\* variant: the final else covers only "balanced"; other names weigh equally
Weights_named_only(strategy) ==
    IF strategy = "momentum" THEN << 25, 45, 15, 15 >>
    ELSE IF strategy = "value" THEN << 20, 15, 35, 30 >>
    ELSE IF strategy = "volume" THEN << 35, 25, 10, 30 >>
    ELSE IF strategy = "balanced" THEN << 30, 25, 25, 20 >>
    ELSE << 25, 25, 25, 25 >>

\* the weight vector (technical, momentum, risk, strategy), in hundredths
Weights(strategy) ==
    IF strategy = "momentum" THEN << 25, 45, 15, 15 >>
    ELSE IF strategy = "value" THEN << 20, 15, 35, 30 >>
    ELSE IF strategy = "volume" THEN << 35, 25, 10, 30 >>
    ELSE << 30, 25, 25, 20 >>

\* score = technical*w1 + momentum*w2 + risk*w3 + strategy*w4;
\* return min(max(score, 0), 100); a raising sub-score: except: return 50
WeightedScore(technical_score, momentum_score, risk_score, strategy_score, w) ==
    IF IsRaise(technical_score) \/ IsRaise(momentum_score) \/
       IsRaise(risk_score) \/ IsRaise(strategy_score)
    THEN I(50)
    ELSE PyMin(PyMax(FAdd(FAdd(FAdd(FScale(technical_score, w[1], 100),
                                    FScale(momentum_score, w[2], 100)),
                               FScale(risk_score, w[3], 100)),
                          FScale(strategy_score, w[4], 100)),
                     I(0)),
               I(100))

calculate_ai_score(df, strategy) ==
    WeightedScore(calculate_technical_score(df),
                  calculate_momentum_score(df),
                  calculate_risk_score(df),
                  calculate_strategy_adjustment(df, strategy),
                  Weights(strategy))

(***************************************************************************)
(* Inputs: the bar series a data provider can hand to the analysis.        *)
(* Bar i of an n-bar series closes at max(0, base + slope*(i-1) + amp on   *)
(* odd bars); high / low are close +- spread (low floored at 0); the last  *)
(* five bars trade vr shares, the earlier ones vb.  gap = 1 makes the      *)
(* close of the second-to-last bar a missing value (NaN).                  *)
(***************************************************************************)
MaxLen == 22

Lens     == (0..MaxLen) \cup {50}
Bases    == {0, 20}
Slopes   == {-1, 0, 1}
Amps     == {0, 3}
Gaps     == {0, 1}
Spreads  == {0, 2}
VolumeProfiles == {<<100, 100>>, <<100, 400>>, <<100, 0>>, <<0, 0>>}

Strategies == {"momentum", "value", "volume", "balanced", "jiazhi_touzi"}

ClosePx(i, p) == MaxI(0, p.base + p.slope * (i - 1) + p.amp * (i % 2))

MkBar(i, n, p) ==
    LET c == ClosePx(i, p)
    IN  [Close  |-> IF p.gap = 1 /\ i = n - 1 THEN NaN ELSE I(c),
         High   |-> I(c + p.spread),
         Low    |-> I(MaxI(0, c - p.spread)),
         Volume |-> I(IF i > n - 5 THEN p.vol[2] ELSE p.vol[1])]

MkSeries(n, p) == [i \in 1..n |-> MkBar(i, n, p)]

Params == [base : Bases, slope : Slopes, amp : Amps, gap : Gaps,
           spread : Spreads, vol : VolumeProfiles]

\* a 30-bar series in which every close is 1% above the previous one
GeoClose[i \in 1..30] == IF i = 1 THEN 100 * Scale ELSE (GeoClose[i - 1] * 101) \div 100

Rising30 == [i \in 1..30 |-> [Close  |-> Num(GeoClose[i]),
                              High   |-> Num(GeoClose[i] + Scale),
                              Low    |-> Num(GeoClose[i] - Scale),
                              Volume |-> I(100)]]

\* n bars closing at 100, the last one at 100 + move
FlatThenMove(n, move) ==
    [i \in 1..n |-> [Close  |-> I(IF i = n THEN 100 + move ELSE 100),
                     High   |-> I(101),
                     Low    |-> I(IF i = n THEN 99 + move ELSE 99),
                     Volume |-> I(100)]]

ScenarioSeries == {Rising30} \cup {FlatThenMove(n, m) : n \in {5, 21}, m \in {-25, -5, 5}}

SeriesSet == {MkSeries(n, p) : n \in Lens, p \in Params} \cup ScenarioSeries

(***************************************************************************)
(* State.                                                                  *)
(***************************************************************************)
VARIABLES
    df,               \* the fetched bar series under analysis
    pc,               \* position of the caller in the analysis
    rsi,              \* calculate_enhanced_technical_score: rsi = calculate_rsi(df)
    bb_upper,         \* calculate_bollinger_signal: bb_upper, bb_lower =
    bb_lower,         \*     calculate_bollinger_bands(df)
    technical_score, support, resistance, overall_score, signals, suggestion,
    strategy, ai_score,
    price_trend,      \* calculate_overall_score_enhanced: price_trend
    momentum_score,   \* calculate_ai_score: momentum_score
    strategy_score,   \* calculate_ai_score: strategy_score
    trades,           \* backtest: the trade list handed to calculate_performance
    initial_capital,  \* backtest: initial_capital
    performance,      \* backtest: what calculate_performance returned
    first,            \* outputs of the first completed call, kept for comparison
    tpc,              \* per thread: the line of get/set_cached_data it is at
    tret,             \* per thread: what its last get_cached_data returned
    equity_curve,     \* calculate_max_drawdown: equity_curve
    max_dd,           \* calculate_max_drawdown: what it returned (None before the call)
    strategies,       \* BacktestingEngine: self.strategies
    results,          \* BacktestingEngine: self.results
    bt_call,          \* the arguments of the last run_backtest call
    bt_ret,           \* what the last run_backtest call returned or raised
    cache_ret,        \* the last get_cached_data call: its key, its time, what it returned
    last_store,       \* history: per key, the value last stored and when
    hybrid_data_cache,  \* stock_app_hybrid: _data_cache
    hybrid_cache_time,  \* stock_app_hybrid: _cache_time
    hybrid_time,        \* stock_app_hybrid: time.time(), in seconds
    api_call_count,     \* stock_app_hybrid: api_call_count
    favorites_groups,   \* FavoritesManager: self.favorites_data["groups"]
    fav_ret,            \* the last FavoritesManager call: its arguments and result
    alerts,             \* AlertSystem: self.alerts
    alert_clock,        \* AlertSystem: int(time.time()), in seconds
    alert_ret           \* the last AlertSystem call: its arguments and result

outs  == << rsi, bb_upper, bb_lower, technical_score, support, resistance,
            overall_score, signals, suggestion, strategy, ai_score,
            price_trend, momentum_score, strategy_score >>
avars == << df, pc, rsi, bb_upper, bb_lower, technical_score, support, resistance,
            overall_score, signals, suggestion, strategy, ai_score,
            price_trend, momentum_score, strategy_score >>
bvars == << trades, initial_capital, performance >>
cvars == << data_cache, cache_timestamp, now >>
tvars == << tpc, tret >>
dvars == << equity_curve, max_dd >>
rvars == << strategies, results, bt_call, bt_ret >>
kvars == << cache_ret, last_store >>
hvars == << hybrid_data_cache, hybrid_cache_time, hybrid_time, api_call_count >>
fvars == << favorites_groups, fav_ret >>
lvars == << alerts, alert_clock, alert_ret >>
evars == << dvars, rvars, kvars, hvars, fvars, lvars >>
vars  == << avars, first, cvars, tvars, bvars, evars >>

Threads == {1, 2}
NoRun   == [kind |-> "none"]

InitOutputs ==
    /\ pc = "start"
    /\ rsi = None
    /\ bb_upper = None
    /\ bb_lower = None
    /\ technical_score = None
    /\ support = None
    /\ resistance = None
    /\ overall_score = None
    /\ signals = << >>
    /\ suggestion = "none"
    /\ strategy = "none"
    /\ ai_score = None
    /\ price_trend = None
    /\ momentum_score = None
    /\ strategy_score = None

\* a Python dict as a function on its key set
EmptyDict == [k \in {} |-> 0]
DictPut(d, k, v) == [x \in (DOMAIN d) \cup {k} |-> IF x = k THEN v ELSE d[x]]
DictDel(d, k) == [x \in (DOMAIN d) \ {k} |-> d[x]]

NotCalled == [status |-> "none"]

\* no drawdown evaluation under way
InitDrawdown ==
    /\ equity_curve = << >>
    /\ max_dd = None

\* BacktestingEngine.__init__
InitEngine ==
    /\ strategies = EmptyDict
    /\ results = EmptyDict
    /\ bt_call = NotCalled
    /\ bt_ret = NotCalled

\* no cache call recorded
InitCacheCalls ==
    /\ cache_ret = NotCalled
    /\ last_store = EmptyDict

\* stock_app_hybrid at import: _data_cache = {}, _cache_time = 0; the clock
\* is the epoch time, more than CACHE_DURATION after 0
CACHE_DURATION == 3600
InitHybridCache ==
    /\ hybrid_data_cache = EmptyDict
    /\ hybrid_cache_time = 0
    /\ hybrid_time = CACHE_DURATION
    /\ api_call_count = [tushare |-> 0, alpha_vantage |-> 0, yfinance |-> 0]

\* _get_default_favorites: the group "default", no stocks.  The timestamps
\* (created_at, updated_at, last_updated) are not part of the model.
DefaultGroups ==
    [g \in {"default"} |-> [name |-> "default_name",
                            description |-> "default_description",
                            stocks |-> << >>]]

InitFavorites ==
    /\ favorites_groups = DefaultGroups
    /\ fav_ret = NotCalled

\* AlertSystem.__init__ without an alerts.json: load_alerts returns []
InitAlerts ==
    /\ alerts = << >>
    /\ alert_clock = 0
    /\ alert_ret = NotCalled

InitRest ==
    /\ InitAlerts
    /\ InitFavorites
    /\ InitDrawdown
    /\ InitEngine
    /\ InitCacheCalls
    /\ InitHybridCache

\* no backtest under way
InitBacktest ==
    /\ trades = << >>
    /\ initial_capital = 0
    /\ performance = NotCalled
    /\ InitRest

InitCache ==
    /\ data_cache = EmptyDict
    /\ cache_timestamp = EmptyDict
    /\ now = 0
    /\ tpc = [t \in Threads |-> "idle"]
    /\ tret = [t \in Threads |-> "none"]

Init ==
    /\ df \in SeriesSet
    /\ InitOutputs
    /\ first = NoRun
    /\ InitCache
    /\ InitBacktest

\* screen_stocks_enhanced: ai_score = calculate_ai_score(hist_data, strategy),
\* 50 for an empty frame
AIScore(st) ==
    /\ pc = "start"
    /\ strategy' = st
    /\ ai_score' = IF Len(df) = 0 THEN I(50) ELSE calculate_ai_score(df, st)
    /\ momentum_score' = IF Len(df) = 0 THEN None ELSE calculate_momentum_score(df)
    /\ strategy_score' = IF Len(df) = 0 THEN None
                         ELSE calculate_strategy_adjustment(df, st)
    /\ pc' = "ai_done"
    /\ UNCHANGED << df, price_trend, rsi, bb_upper, bb_lower, technical_score, support, resistance,
                    overall_score, signals, suggestion, first, cvars, tvars, bvars, evars >>

\* analyze_stock_enhanced, line by line from "计算技术指标"
TechScore ==
    /\ pc = "start"
    /\ rsi' = calculate_rsi(df)
    /\ bb_upper' = calculate_bollinger_bands(df).upper
    /\ bb_lower' = calculate_bollinger_bands(df).lower
    /\ technical_score' = calculate_enhanced_technical_score(df)
    /\ pc' = "support"
    /\ UNCHANGED << df, price_trend, momentum_score, strategy_score, support, resistance, overall_score, signals, suggestion,
                    strategy, ai_score, first, cvars, tvars, bvars, evars >>

Support ==
    /\ pc = "support"
    /\ support' = calculate_smart_support(df)
    /\ pc' = IF IsRaise(support') THEN "raised" ELSE "resistance"
    /\ UNCHANGED << df, price_trend, momentum_score, strategy_score,
                    rsi, bb_upper, bb_lower, technical_score, resistance,
                    overall_score, signals, suggestion, strategy, ai_score,
                    first, cvars, tvars, bvars, evars >>

Resistance ==
    /\ pc = "resistance"
    /\ resistance' = calculate_smart_resistance(df)
    /\ pc' = IF IsRaise(resistance') THEN "raised" ELSE "overall"
    /\ UNCHANGED << df, price_trend, momentum_score, strategy_score,
                    rsi, bb_upper, bb_lower, technical_score, support,
                    overall_score, signals, suggestion, strategy, ai_score,
                    first, cvars, tvars, bvars, evars >>

Overall ==
    /\ pc = "overall"
    /\ overall_score' = calculate_overall_score_enhanced(df, technical_score)
    /\ price_trend' = calculate_price_trend_score(df)
    /\ pc' = "signals"
    /\ UNCHANGED << df, momentum_score, strategy_score, rsi, bb_upper, bb_lower, technical_score, support, resistance,
                    signals, suggestion, strategy, ai_score, first, cvars, tvars, bvars, evars >>

Signals ==
    /\ pc = "signals"
    /\ signals' = generate_enhanced_signals(df, support, resistance, overall_score)
    /\ suggestion' = SuggestionLabel(overall_score)
    /\ pc' = "done"
    /\ UNCHANGED << df, price_trend, momentum_score, strategy_score, rsi, bb_upper, bb_lower, technical_score, support, resistance,
                    overall_score, strategy, ai_score, first, cvars, tvars, bvars, evars >>

Next ==
    \/ \E st \in Strategies : AIScore(st)
    \/ TechScore
    \/ Support
    \/ Resistance
    \/ Overall
    \/ Signals

Spec == Init /\ [][Next]_vars


(***************************************************************************)
(* The module-level cache (_data_cache, _cache_timestamp) as one caller    *)
(* uses it: each call runs to its end before the next starts.  Time is in  *)
(* minutes.                                                                *)
(***************************************************************************)
CACHE_EXPIRE_MINUTES == 5
MaxClock == 6
Keys == {"ashare_spot"}

\* variant: an entry of exactly CACHE_EXPIRE_MINUTES still counts as fresh
Fresh_inclusive(ts) == (now - ts) * 60 <= CACHE_EXPIRE_MINUTES * 60

\* (datetime.now() - _cache_timestamp[key]).total_seconds() < CACHE_EXPIRE_MINUTES * 60
Fresh(ts) == (now - ts) * 60 < CACHE_EXPIRE_MINUTES * 60

\* get_cached_data(key): a fresh entry is returned, an expired one deleted
get_cached_data(key) ==
    /\ pc = "start"
    /\ IF key \in DOMAIN data_cache /\ key \in DOMAIN cache_timestamp
       THEN IF Fresh(cache_timestamp[key])
            THEN UNCHANGED << data_cache, cache_timestamp >>
            ELSE /\ data_cache' = DictDel(data_cache, key)
                 /\ cache_timestamp' = DictDel(cache_timestamp, key)
       ELSE UNCHANGED << data_cache, cache_timestamp >>
    /\ UNCHANGED << avars, first, bvars, evars, now, tvars >>

\* set_cached_data(key, data)
set_cached_data(key) ==
    /\ pc = "start"
    /\ data_cache' = DictPut(data_cache, key, "data")
    /\ cache_timestamp' = DictPut(cache_timestamp, key, now)
    /\ UNCHANGED << avars, first, bvars, evars, now, tvars >>

\* the wall clock moves on
Tick ==
    /\ now < MaxClock
    /\ now' = now + 1
    /\ UNCHANGED << avars, first, bvars, evars, data_cache, cache_timestamp, tvars >>

(***************************************************************************)
(* The same cache under any single-threaded sequence of calls on several   *)
(* keys and values, each get recording what it returned.                   *)
(***************************************************************************)
CacheKeys == {"ashare_spot", "us_spot"}
CacheData == {"d1", "d2"}

\* get_cached_data(key) with its return value
GetCachedData(key) ==
    /\ IF key \in DOMAIN data_cache /\ key \in DOMAIN cache_timestamp
       THEN IF Fresh(cache_timestamp[key])
            THEN /\ cache_ret' = [status |-> "returned", key |-> key, at |-> now,
                                  value |-> data_cache[key]]
                 /\ UNCHANGED << data_cache, cache_timestamp >>
            ELSE /\ data_cache' = DictDel(data_cache, key)
                 /\ cache_timestamp' = DictDel(cache_timestamp, key)
                 /\ cache_ret' = [status |-> "returned", key |-> key, at |-> now,
                                  value |-> "None"]
       ELSE /\ cache_ret' = [status |-> "returned", key |-> key, at |-> now,
                             value |-> "None"]
            /\ UNCHANGED << data_cache, cache_timestamp >>
    /\ UNCHANGED << avars, first, bvars, dvars, rvars, hvars, last_store, now, tvars, fvars, lvars >>

\* set_cached_data(key, data)
SetCachedData(key, data) ==
    /\ data_cache' = DictPut(data_cache, key, data)
    /\ cache_timestamp' = DictPut(cache_timestamp, key, now)
    /\ last_store' = DictPut(last_store, key, [data |-> data, at |-> now])
    /\ UNCHANGED << avars, first, bvars, dvars, rvars, hvars, cache_ret, now, tvars, fvars, lvars >>

InitSeq ==
    /\ df = << >>
    /\ InitOutputs
    /\ first = NoRun
    /\ InitCache
    /\ InitBacktest

NextSeq ==
    \/ \E key \in CacheKeys : GetCachedData(key)
    \/ \E key \in CacheKeys, data \in CacheData : SetCachedData(key, data)
    \/ Tick

SpecSeq == InitSeq /\ [][NextSeq]_vars

(***************************************************************************)
(* stock_app_hybrid.py: one cache dict and one module-level _cache_time    *)
(* for all keys.  The clock advances in steps of half the cache duration.  *)
(***************************************************************************)
MaxHybridTicks == 3
TickSeconds == CACHE_DURATION \div 2
HybridKeys == {"ashare_600519", "usstock_AAPL"}
HybridData == {"r1", "r2"}

\* get_cached_data(key) of stock_app_hybrid
hybrid_get_cached_data(key) ==
    /\ cache_ret' = [status |-> "returned", key |-> key, at |-> hybrid_time,
                     value |-> IF /\ key \in DOMAIN hybrid_data_cache
                                  /\ hybrid_time - hybrid_cache_time < CACHE_DURATION
                               THEN hybrid_data_cache[key]
                               ELSE "None"]
    /\ UNCHANGED << avars, first, cvars, tvars, bvars, dvars, rvars, hvars, last_store, fvars, lvars >>

\* set_cached_data(key, data) of stock_app_hybrid
hybrid_set_cached_data(key, data) ==
    /\ hybrid_data_cache' = DictPut(hybrid_data_cache, key, data)
    /\ hybrid_cache_time' = hybrid_time
    /\ last_store' = DictPut(last_store, key, [data |-> data, at |-> hybrid_time])
    /\ UNCHANGED << avars, first, cvars, tvars, bvars, dvars, rvars, cache_ret, hybrid_time,
                    api_call_count, fvars, lvars >>

\* time.time() moves on
HybridTick ==
    /\ hybrid_time < CACHE_DURATION + MaxHybridTicks * TickSeconds
    /\ hybrid_time' = hybrid_time + TickSeconds
    /\ UNCHANGED << avars, first, cvars, tvars, bvars, dvars, rvars, kvars,
                    hybrid_data_cache, hybrid_cache_time, api_call_count, fvars, lvars >>

InitHybrid ==
    /\ df = << >>
    /\ InitOutputs
    /\ first = NoRun
    /\ InitCache
    /\ InitBacktest

NextHybrid ==
    \/ \E key \in HybridKeys : hybrid_get_cached_data(key)
    \/ \E key \in HybridKeys, data \in HybridData : hybrid_set_cached_data(key, data)
    \/ HybridTick

SpecHybrid == InitHybrid /\ [][NextHybrid]_vars

(***************************************************************************)
(* stock_app_hybrid.py: the API call counters.  A provider request either  *)
(* answers or raises; an exception leaves the function through its except  *)
(* branch with the increments made so far.                                 *)
(***************************************************************************)
TUSHARE_LIMIT == 5
ALPHA_VANTAGE_LIMIT == 25
TushareRequests == 3

\* check_api_limits()
check_api_limits ==
    IF api_call_count.tushare >= TUSHARE_LIMIT THEN FALSE
    ELSE IF api_call_count.alpha_vantage >= ALPHA_VANTAGE_LIMIT THEN FALSE
    ELSE TRUE

\* get_real_ashare_data_limited(): answered of the three pro.* requests answer,
\* the next one (if any) raises
get_real_ashare_data_limited(answered) ==
    /\ api_call_count' =
          IF ~check_api_limits THEN api_call_count
          ELSE [api_call_count EXCEPT !.tushare = @ + answered]
    /\ UNCHANGED << avars, first, cvars, tvars, bvars, dvars, rvars, kvars,
                    hybrid_data_cache, hybrid_cache_time, hybrid_time, fvars, lvars >>

\* get_real_us_stock_data_limited(symbol): at the limit yfinance is used;
\* otherwise requests.get answers (ok) or raises before the counter is touched
get_real_us_stock_data_limited(ok) ==
    /\ api_call_count' =
          IF api_call_count.alpha_vantage >= ALPHA_VANTAGE_LIMIT THEN api_call_count
          ELSE IF ok THEN [api_call_count EXCEPT !.alpha_vantage = @ + 1]
          ELSE api_call_count
    /\ UNCHANGED << avars, first, cvars, tvars, bvars, dvars, rvars, kvars,
                    hybrid_data_cache, hybrid_cache_time, hybrid_time, fvars, lvars >>

InitApi ==
    /\ df = << >>
    /\ InitOutputs
    /\ first = NoRun
    /\ InitCache
    /\ InitBacktest

NextApi ==
    \/ \E answered \in 0..TushareRequests : get_real_ashare_data_limited(answered)
    \/ \E ok \in BOOLEAN : get_real_us_stock_data_limited(ok)

SpecApi == InitApi /\ [][NextApi]_vars

(***************************************************************************)
(* favorites_manager.py: FavoritesManager.  The groups are a dict from     *)
(* group id to name, description and the list of stock entries.  Each      *)
(* operation is a function from the groups and its arguments to the groups *)
(* after it and its return value; saved tells whether _save_favorites      *)
(* wrote the file (True) or caught an IOError (False).                     *)
(***************************************************************************)
GroupIds == {"default", "tech"}
NewGroupIds == {"", "tech"}
GroupNames == {"", "Tech"}
NewNames == {"None", "Renamed"}
NewDescriptions == {"None", "d"}
StockSymbols == {"AAPL", "600519"}
StockNames == {"", "Apple"}

\* the position of the first entry with this symbol, 0 if there is none
RECURSIVE FirstIndex(_, _, _)
FirstIndex(stocks, symbol, i) ==
    IF i > Len(stocks) THEN 0
    ELSE IF stocks[i].symbol = symbol THEN i
    ELSE FirstIndex(stocks, symbol, i + 1)

\* [stock for stock in stocks if stock["symbol"] != symbol]
RECURSIVE WithoutSymbol(_, _)
WithoutSymbol(stocks, symbol) ==
    IF Len(stocks) = 0 THEN << >>
    ELSE IF stocks[1].symbol = symbol THEN WithoutSymbol(Tail(stocks), symbol)
    ELSE << stocks[1] >> \o WithoutSymbol(Tail(stocks), symbol)

Outcome(groups, result) == [groups |-> groups, result |-> result]

create_group(groups, group_id, name, description, saved) ==
    IF group_id = "" \/ name = "" THEN Outcome(groups, FALSE)
    ELSE IF group_id \in DOMAIN groups THEN Outcome(groups, FALSE)
    ELSE Outcome(DictPut(groups, group_id,
                         [name |-> name, description |-> description, stocks |-> << >>]),
                 saved)

\* variant: the group "default" is deleted like any other
delete_group_any(groups, group_id, saved) ==
    IF group_id \notin DOMAIN groups THEN Outcome(groups, FALSE)
    ELSE Outcome(DictDel(groups, group_id), saved)

delete_group(groups, group_id, saved) ==
    IF group_id \notin DOMAIN groups THEN Outcome(groups, FALSE)
    ELSE IF group_id = "default" THEN Outcome(groups, FALSE)
    ELSE Outcome(DictDel(groups, group_id), saved)

update_group(groups, group_id, name, description, saved) ==
    IF group_id \notin DOMAIN groups THEN Outcome(groups, FALSE)
    ELSE Outcome([groups EXCEPT
                     ![group_id].name = IF name # "None" THEN name ELSE @,
                     ![group_id].description = IF description # "None" THEN description ELSE @],
                 saved)

\* variant: the entry is appended whether or not the symbol is in the group
add_stock_to_group_append(groups, group_id, symbol, name, note, saved) ==
    IF group_id \notin DOMAIN groups THEN Outcome(groups, FALSE)
    ELSE Outcome([groups EXCEPT ![group_id].stocks =
                     Append(@, [symbol |-> symbol,
                                name   |-> IF name # "" THEN name ELSE symbol,
                                note   |-> note])],
                 saved)

add_stock_to_group(groups, group_id, symbol, name, note, saved) ==
    IF group_id \notin DOMAIN groups THEN Outcome(groups, FALSE)
    ELSE LET stocks == groups[group_id].stocks
             i      == FirstIndex(stocks, symbol, 1)
         IN  IF i > 0
             THEN Outcome([groups EXCEPT
                              ![group_id].stocks[i].name = IF name # "" THEN name ELSE @,
                              ![group_id].stocks[i].note = IF note # "" THEN note ELSE @],
                          saved)
             ELSE Outcome([groups EXCEPT ![group_id].stocks =
                              Append(@, [symbol |-> symbol,
                                         name   |-> IF name # "" THEN name ELSE symbol,
                                         note   |-> note])],
                          saved)

remove_stock_from_group(groups, group_id, symbol, saved) ==
    IF group_id \notin DOMAIN groups THEN Outcome(groups, FALSE)
    ELSE LET stocks == groups[group_id].stocks
             kept   == WithoutSymbol(stocks, symbol)
         IN  IF Len(kept) < Len(stocks)
             THEN Outcome([groups EXCEPT ![group_id].stocks = kept], saved)
             ELSE Outcome([groups EXCEPT ![group_id].stocks = kept], FALSE)

\* the record of one call
Returned(op, group_id, symbol, saved, out) ==
    [status |-> "returned", op |-> op, group_id |-> group_id,
     symbol |-> symbol, saved |-> saved, result |-> out.result]

CreateGroup(group_id, name, saved) ==
    LET out == create_group(favorites_groups, group_id, name, "", saved)
    IN  /\ favorites_groups' = out.groups
        /\ fav_ret' = Returned("create_group", group_id, "", saved, out)
        /\ UNCHANGED << avars, first, cvars, tvars, bvars, dvars, rvars, kvars, hvars, lvars >>

DeleteGroup(group_id, saved) ==
    LET out == delete_group(favorites_groups, group_id, saved)
    IN  /\ favorites_groups' = out.groups
        /\ fav_ret' = Returned("delete_group", group_id, "", saved, out)
        /\ UNCHANGED << avars, first, cvars, tvars, bvars, dvars, rvars, kvars, hvars, lvars >>

UpdateGroup(group_id, name, description, saved) ==
    LET out == update_group(favorites_groups, group_id, name, description, saved)
    IN  /\ favorites_groups' = out.groups
        /\ fav_ret' = Returned("update_group", group_id, "", saved, out)
        /\ UNCHANGED << avars, first, cvars, tvars, bvars, dvars, rvars, kvars, hvars, lvars >>

AddStockToGroup(group_id, symbol, name, saved) ==
    LET out == add_stock_to_group(favorites_groups, group_id, symbol, name, "", saved)
    IN  /\ favorites_groups' = out.groups
        /\ fav_ret' = Returned("add_stock_to_group", group_id, symbol, saved, out)
        /\ UNCHANGED << avars, first, cvars, tvars, bvars, dvars, rvars, kvars, hvars, lvars >>

RemoveStockFromGroup(group_id, symbol, saved) ==
    LET out == remove_stock_from_group(favorites_groups, group_id, symbol, saved)
    IN  /\ favorites_groups' = out.groups
        /\ fav_ret' = Returned("remove_stock_from_group", group_id, symbol, saved, out)
        /\ UNCHANGED << avars, first, cvars, tvars, bvars, dvars, rvars, kvars, hvars, lvars >>

InitFav ==
    /\ df = << >>
    /\ InitOutputs
    /\ first = NoRun
    /\ InitCache
    /\ InitBacktest

NextFav ==
    \/ \E g \in NewGroupIds \cup GroupIds, n \in GroupNames, ok \in BOOLEAN : CreateGroup(g, n, ok)
    \/ \E g \in GroupIds, ok \in BOOLEAN : DeleteGroup(g, ok)
    \/ \E g \in GroupIds, n \in NewNames, d \in NewDescriptions, ok \in BOOLEAN :
          UpdateGroup(g, n, d, ok)
    \/ \E g \in GroupIds, sym \in StockSymbols, n \in StockNames, ok \in BOOLEAN :
          AddStockToGroup(g, sym, n, ok)
    \/ \E g \in GroupIds, sym \in StockSymbols, ok \in BOOLEAN : RemoveStockFromGroup(g, sym, ok)

SpecFav == InitFav /\ [][NextFav]_vars

(***************************************************************************)
(* alert_system.py: AlertSystem.  self.alerts is a list of alert dicts.    *)
(* An id is the f-string of its parts, "price_<symbol>_<alert_type>_<t>"   *)
(* or "tech_<symbol>_<indicator>_<t>" with t = int(time.time()): here the  *)
(* tuple of the parts.                                                     *)
(***************************************************************************)
MaxAlerts == 3
MaxAlertClock == 1
AlertSymbols == {"AAPL"}
AlertTypes == {"above", "below"}
Indicators == {"rsi"}
AlertIds == ({"price"} \X AlertSymbols \X AlertTypes \X (0..MaxAlertClock))
              \cup ({"tech"} \X AlertSymbols \X Indicators \X (0..MaxAlertClock))
NotTriggered == -1

\* the position of the first alert with this id, 0 if there is none
RECURSIVE FirstAlert(_, _, _)
FirstAlert(alert_list, alert_id, i) ==
    IF i > Len(alert_list) THEN 0
    ELSE IF alert_list[i].id = alert_id THEN i
    ELSE FirstAlert(alert_list, alert_id, i + 1)

\* del self.alerts[i]
DelAt(alert_list, i) ==
    [j \in 1..(Len(alert_list) - 1) |-> IF j < i THEN alert_list[j] ELSE alert_list[j + 1]]

add_price_alert(symbol, alert_type) ==
    /\ Len(alerts) < MaxAlerts
    /\ LET alert == [id |-> << "price", symbol, alert_type, alert_clock >>,
                     type |-> "price", triggered |-> FALSE, triggered_at |-> NotTriggered]
       IN  /\ alerts' = Append(alerts, alert)
           /\ alert_ret' = [status |-> "returned", op |-> "add_price_alert",
                            id |-> alert.id, result |-> TRUE]
    /\ UNCHANGED << avars, first, cvars, tvars, bvars, dvars, rvars, kvars, hvars, fvars,
                    alert_clock >>

add_technical_alert(symbol, indicator) ==
    /\ Len(alerts) < MaxAlerts
    /\ LET alert == [id |-> << "tech", symbol, indicator, alert_clock >>,
                     type |-> "technical", triggered |-> FALSE, triggered_at |-> NotTriggered]
       IN  /\ alerts' = Append(alerts, alert)
           /\ alert_ret' = [status |-> "returned", op |-> "add_technical_alert",
                            id |-> alert.id, result |-> TRUE]
    /\ UNCHANGED << avars, first, cvars, tvars, bvars, dvars, rvars, kvars, hvars, fvars,
                    alert_clock >>

\* remove_alert(alert_id): the first alert with this id is deleted
remove_alert(alert_id) ==
    /\ LET i == FirstAlert(alerts, alert_id, 1)
       IN  /\ alerts' = IF i > 0 THEN DelAt(alerts, i) ELSE alerts
           /\ alert_ret' = [status |-> "returned", op |-> "remove_alert",
                            id |-> alert_id, result |-> (i > 0)]
    /\ UNCHANGED << avars, first, cvars, tvars, bvars, dvars, rvars, kvars, hvars, fvars,
                    alert_clock >>

\* trigger_alert(alert, current_data), alert being the i-th stored alert
trigger_alert(i) ==
    /\ i \in 1..Len(alerts)
    /\ alerts' = [alerts EXCEPT ![i].triggered = TRUE, ![i].triggered_at = alert_clock]
    /\ alert_ret' = [status |-> "returned", op |-> "trigger_alert",
                     id |-> alerts[i].id, result |-> TRUE]
    /\ UNCHANGED << avars, first, cvars, tvars, bvars, dvars, rvars, kvars, hvars, fvars,
                    alert_clock >>

\* clear_triggered_alerts(before_date): without a date every triggered alert
\* goes, with one those triggered later stay
clear_triggered_alerts(before_date) ==
    /\ alerts' = IF before_date = NotTriggered
                 THEN SelectSeq(alerts, LAMBDA a : ~a.triggered)
                 ELSE SelectSeq(alerts, LAMBDA a : ~a.triggered \/ a.triggered_at > before_date)
    /\ alert_ret' = [status |-> "returned", op |-> "clear_triggered_alerts",
                     id |-> << >>, result |-> TRUE]
    /\ UNCHANGED << avars, first, cvars, tvars, bvars, dvars, rvars, kvars, hvars, fvars,
                    alert_clock >>

\* a second passes
AlertTick ==
    /\ alert_clock < MaxAlertClock
    /\ alert_clock' = alert_clock + 1
    /\ UNCHANGED << avars, first, cvars, tvars, bvars, dvars, rvars, kvars, hvars, fvars,
                    alerts, alert_ret >>

InitAlert ==
    /\ df = << >>
    /\ InitOutputs
    /\ first = NoRun
    /\ InitCache
    /\ InitBacktest

NextAlert ==
    \/ \E sym \in AlertSymbols, ty \in AlertTypes : add_price_alert(sym, ty)
    \/ \E sym \in AlertSymbols, ind \in Indicators : add_technical_alert(sym, ind)
    \/ \E id \in AlertIds : remove_alert(id)
    \/ \E i \in 1..MaxAlerts : trigger_alert(i)
    \/ \E before \in {NotTriggered} \cup (0..MaxAlertClock) : clear_triggered_alerts(before)
    \/ AlertTick

SpecAlert == InitAlert /\ [][NextAlert]_vars

(***************************************************************************)
(* Repeated calls: after a call has returned (or raised) the caller starts *)
(* another one, on any series; the outputs of the first completed call     *)
(* are kept to compare later calls with.                                   *)
(***************************************************************************)
DetLens == {0, 1, 21}
DetParams == {p \in Params : p.base = 20 /\ p.slope # 0 /\ p.amp = 0 /\ p.gap = 0
                             /\ p.spread = 2 /\ p.vol = << 100, 400 >>}
DetSeries == {MkSeries(n, p) : n \in DetLens, p \in DetParams}
DetStrategies == {"momentum", "jiazhi_touzi"}

Restart(d) ==
    /\ pc \in {"ai_done", "done", "raised"}
    /\ first' = IF first = NoRun
                THEN [kind |-> pc, df |-> df, strategy |-> strategy, out |-> outs]
                ELSE first
    /\ df' = d
    /\ pc' = "start"
    /\ rsi' = None
    /\ bb_upper' = None
    /\ bb_lower' = None
    /\ technical_score' = None
    /\ support' = None
    /\ resistance' = None
    /\ overall_score' = None
    /\ signals' = << >>
    /\ suggestion' = "none"
    /\ strategy' = "none"
    /\ ai_score' = None
    /\ price_trend' = None
    /\ momentum_score' = None
    /\ strategy_score' = None
    /\ UNCHANGED << cvars, tvars, bvars, evars >>

InitDet ==
    /\ df \in DetSeries
    /\ InitOutputs
    /\ first = NoRun
    /\ InitCache
    /\ InitBacktest

NextDet ==
    \/ \E st \in DetStrategies : AIScore(st)
    \/ TechScore
    \/ Support
    \/ Resistance
    \/ Overall
    \/ Signals
    \/ \E d \in DetSeries : Restart(d)
    \/ \E key \in Keys : get_cached_data(key)
    \/ \E key \in Keys : set_cached_data(key)
    \/ Tick

SpecDet == InitDet /\ [][NextDet]_vars

(***************************************************************************)
(* Two request threads in get_ashare_data, one statement at a time.  tpc   *)
(* is the line of get_cached_data / set_cached_data a thread is about to   *)
(* run; "error" is a thread whose call ended in a KeyError.                *)
(***************************************************************************)
\* get_ashare_data: cached_data = get_cached_data(cache_key)
T_Call(t, key) ==
    /\ tpc[t] = "idle"
    /\ tpc' = [tpc EXCEPT ![t] = "get_in_data"]
    /\ tret' = [tret EXCEPT ![t] = "none"]
    /\ UNCHANGED << avars, first, bvars, evars, cvars >>

\* if key in _data_cache ...
T_InData(t, key) ==
    /\ tpc[t] = "get_in_data"
    /\ IF key \in DOMAIN data_cache
       THEN tpc' = [tpc EXCEPT ![t] = "get_in_timestamp"] /\ UNCHANGED tret
       ELSE tpc' = [tpc EXCEPT ![t] = "fetch"] /\ tret' = [tret EXCEPT ![t] = "None"]
    /\ UNCHANGED << avars, first, bvars, evars, cvars >>

\* ... and key in _cache_timestamp:
T_InTimestamp(t, key) ==
    /\ tpc[t] = "get_in_timestamp"
    /\ IF key \in DOMAIN cache_timestamp
       THEN tpc' = [tpc EXCEPT ![t] = "get_expired"] /\ UNCHANGED tret
       ELSE tpc' = [tpc EXCEPT ![t] = "fetch"] /\ tret' = [tret EXCEPT ![t] = "None"]
    /\ UNCHANGED << avars, first, bvars, evars, cvars >>

\* if (datetime.now() - _cache_timestamp[key]).total_seconds() < ...
T_Expired(t, key) ==
    /\ tpc[t] = "get_expired"
    /\ tpc' = [tpc EXCEPT ![t] =
                  IF key \notin DOMAIN cache_timestamp THEN "error"
                  ELSE IF Fresh(cache_timestamp[key]) THEN "get_return"
                  ELSE "get_del_data"]
    /\ UNCHANGED << avars, first, bvars, evars, cvars, tret >>

\* return _data_cache[key]
T_Return(t, key) ==
    /\ tpc[t] = "get_return"
    /\ IF key \in DOMAIN data_cache
       THEN tpc' = [tpc EXCEPT ![t] = "idle"] /\ tret' = [tret EXCEPT ![t] = data_cache[key]]
       ELSE tpc' = [tpc EXCEPT ![t] = "error"] /\ UNCHANGED tret
    /\ UNCHANGED << avars, first, bvars, evars, cvars >>

\* del _data_cache[key]
T_DelData(t, key) ==
    /\ tpc[t] = "get_del_data"
    /\ IF key \in DOMAIN data_cache
       THEN /\ data_cache' = DictDel(data_cache, key)
            /\ tpc' = [tpc EXCEPT ![t] = "get_del_timestamp"]
       ELSE /\ tpc' = [tpc EXCEPT ![t] = "error"]
            /\ UNCHANGED data_cache
    /\ UNCHANGED << avars, first, bvars, evars, cache_timestamp, now, tret >>

\* del _cache_timestamp[key]; return None
T_DelTimestamp(t, key) ==
    /\ tpc[t] = "get_del_timestamp"
    /\ IF key \in DOMAIN cache_timestamp
       THEN /\ cache_timestamp' = DictDel(cache_timestamp, key)
            /\ tpc' = [tpc EXCEPT ![t] = "fetch"]
            /\ tret' = [tret EXCEPT ![t] = "None"]
       ELSE /\ tpc' = [tpc EXCEPT ![t] = "error"]
            /\ UNCHANGED << cache_timestamp, tret >>
    /\ UNCHANGED << avars, first, bvars, evars, data_cache, now >>

\* get_ashare_data after a miss: a provider delivers and the data is cached,
\* or every provider fails and the call ends without a store
T_Fetch(t, ok) ==
    /\ tpc[t] = "fetch"
    /\ tpc' = [tpc EXCEPT ![t] = IF ok THEN "set_data" ELSE "idle"]
    /\ UNCHANGED << avars, first, bvars, evars, cvars, tret >>

\* _data_cache[key] = data
T_SetData(t, key) ==
    /\ tpc[t] = "set_data"
    /\ data_cache' = DictPut(data_cache, key, "data")
    /\ tpc' = [tpc EXCEPT ![t] = "set_timestamp"]
    /\ UNCHANGED << avars, first, bvars, evars, cache_timestamp, now, tret >>

\* _cache_timestamp[key] = datetime.now()
T_SetTimestamp(t, key) ==
    /\ tpc[t] = "set_timestamp"
    /\ cache_timestamp' = DictPut(cache_timestamp, key, now)
    /\ tpc' = [tpc EXCEPT ![t] = "idle"]
    /\ UNCHANGED << avars, first, bvars, evars, data_cache, now, tret >>

InitConc ==
    /\ df = << >>
    /\ InitOutputs
    /\ first = NoRun
    /\ InitCache
    /\ InitBacktest

NextConc ==
    \/ \E t \in Threads, key \in Keys :
          \/ T_Call(t, key)
          \/ T_InData(t, key)
          \/ T_InTimestamp(t, key)
          \/ T_Expired(t, key)
          \/ T_Return(t, key)
          \/ T_DelData(t, key)
          \/ T_DelTimestamp(t, key)
          \/ T_SetData(t, key)
          \/ T_SetTimestamp(t, key)
    \/ \E t \in Threads, ok \in BOOLEAN : T_Fetch(t, ok)
    \/ Tick

SpecConc == InitConc /\ [][NextConc]_vars

(***************************************************************************)
(* generate_enhanced_signals and the suggestion on their own: the caller   *)
(* stands before the call with any overall score and any pair of levels.   *)
(***************************************************************************)
SigScores == {Num(x * (Scale \div 10)) : x \in {0, 399, 400, 599, 600, 799, 800, 1000}}
SigLevels == {I(0), I(1), I(20), I(40)}
SigSeries == {MkSeries(n, p) : n \in {1, 20},
                               p \in {q \in Params : q.spread = 2 /\ q.vol = << 100, 100 >>}}

InitSig ==
    /\ df \in SigSeries
    /\ pc = "signals"
    /\ overall_score \in SigScores
    /\ support \in SigLevels
    /\ resistance \in SigLevels
    /\ rsi = None
    /\ bb_upper = None
    /\ bb_lower = None
    /\ technical_score = None
    /\ signals = << >>
    /\ suggestion = "none"
    /\ strategy = "none"
    /\ ai_score = None
    /\ price_trend = None
    /\ momentum_score = None
    /\ strategy_score = None
    /\ first = NoRun
    /\ InitCache
    /\ InitBacktest

NextSig == Signals

SpecSig == InitSig /\ [][NextSig]_vars

(***************************************************************************)
(* backtesting.py: BacktestingEngine.calculate_performance.  A trade is a  *)
(* dict; type = "absent" is a dict without the key 'type', has_profit      *)
(* tells whether it has the key 'profit'.  The result is the returned dict *)
(* (status "ok") or the exception that left the method (status "raise").   *)
(***************************************************************************)
MaxTrades == 3
TradeTypes == {"BUY", "SELL", "absent"}
Profits == {-5, 0, 3, 10}
Trades == [type : TradeTypes, has_profit : {TRUE}, profit : Profits]
            \cup [type : TradeTypes, has_profit : {FALSE}, profit : {0}]
TradeLists == UNION {[1..n -> Trades] : n \in 0..MaxTrades}
Capitals == {0, 10000}

Raised(error) == [status |-> "raise", error |-> error]

\* t.get('profit', 0) > 0
IsWin(t) == (IF t.has_profit THEN t.profit ELSE 0) > 0

\* calculate_max_drawdown, the loop from position i on: the values are
\* Python numbers, so a peak of 0 raises ZeroDivisionError at (peak - value) / peak
RECURSIVE MaxDrawdownLoop(_, _, _, _)
MaxDrawdownLoop(curve, i, peak, acc) ==
    IF i > Len(curve) THEN acc
    ELSE LET value == curve[i]
             p     == IF value > peak THEN value ELSE peak
         IN  IF p = 0 THEN Raise
             ELSE MaxDrawdownLoop(curve, i + 1, p,
                                  PyMax(acc, FDiv(FSub(I(p), I(value)), I(p))))

calculate_max_drawdown(curve) ==
    IF Len(curve) = 0 THEN I(0)                              \* if not equity_curve
    ELSE MaxDrawdownLoop(curve, 1, curve[1], I(0))

\* the part of calculate_performance after the loop over the trades
Metrics(trade_list, capital) ==
    IF capital = 0
    THEN Raised("ZeroDivisionError")        \* (final_value - initial_capital) / initial_capital
    ELSE [status       |-> "ok",
          final_value  |-> I(capital),
          total_return |-> FDiv(FSub(I(capital), I(capital)), I(capital)),
          win_rate     |-> IF Len(trade_list) > 0           \* ... if trades else 0
                           THEN FDivInt(I(Len(SelectSeq(trade_list, IsWin))), Len(trade_list))
                           ELSE I(0),
          max_drawdown |-> calculate_max_drawdown(<< capital >>),
          sharpe_ratio |-> I(0)]

\* variant: no early return for an empty trade list
calculate_performance_unguarded(trade_list, capital) ==
    IF \E i \in 1..Len(trade_list) : trade_list[i].type = "absent"
    THEN Raised("KeyError")
    ELSE Metrics(trade_list, capital)

calculate_performance(trade_list, capital) ==
    IF Len(trade_list) = 0                                   \* if not trades
    THEN [status       |-> "ok",
          final_value  |-> I(capital),
          total_return |-> I(0),
          win_rate     |-> I(0),
          max_drawdown |-> I(0),
          sharpe_ratio |-> I(0)]
    ELSE IF \E i \in 1..Len(trade_list) : trade_list[i].type = "absent"
         THEN Raised("KeyError")                             \* trade['type']
         ELSE Metrics(trade_list, capital)

CalculatePerformance ==
    /\ performance = NotCalled
    /\ performance' = calculate_performance(trades, initial_capital)
    /\ UNCHANGED << avars, first, cvars, tvars, trades, initial_capital, evars >>

MaxCurve == 4
CurveValues == {-1, 0, 1, 2, 4}
Curves == UNION {[1..n -> CurveValues] : n \in 0..MaxCurve}

CalculateMaxDrawdown ==
    /\ max_dd = None
    /\ max_dd' = calculate_max_drawdown(equity_curve)
    /\ UNCHANGED << avars, first, cvars, tvars, bvars, equity_curve, rvars, kvars, hvars, fvars, lvars >>

InitDD ==
    /\ df = << >>
    /\ InitOutputs
    /\ first = NoRun
    /\ InitCache
    /\ trades = << >>
    /\ initial_capital = 0
    /\ performance = NotCalled
    /\ equity_curve \in Curves
    /\ max_dd = None
    /\ InitAlerts
    /\ InitFavorites
    /\ InitEngine
    /\ InitCacheCalls
    /\ InitHybridCache

NextDD == CalculateMaxDrawdown

SpecDD == InitDD /\ [][NextDD]_vars

InitBT ==
    /\ df = << >>
    /\ InitOutputs
    /\ first = NoRun
    /\ InitCache
    /\ trades \in TradeLists
    /\ initial_capital \in Capitals
    /\ performance = NotCalled
    /\ InitRest

NextBT == CalculatePerformance

SpecBT == InitBT /\ [][NextBT]_vars

(***************************************************************************)
(* backtesting.py: BacktestingEngine.register_strategy and run_backtest.   *)
(* self.strategies maps a name to a strategy function, self.results a key  *)
(* to a stored result.  The dates of a call are fixed.                     *)
(***************************************************************************)
StrategyNames == {"SMA_Crossover", "RSI_Strategy", "MACD_Strategy"}
StrategyFuncs == {"simple_moving_average_strategy", "rsi_strategy"}
Symbols == {"AAPL", "600519"}
StartDate == "2023-01-01"
EndDate == "2023-12-31"

\* load_historical_data: return pd.DataFrame()
load_historical_data(symbol, start_date, end_date) == << >>

\* simple_moving_average_strategy, rsi_strategy, macd_strategy: return []
StrategyTrades(func, data, capital) == << >>

NoDataResult(strategy_name, symbol, start_date, end_date, capital) ==
    [status          |-> "NO_DATA",
     strategy        |-> strategy_name,
     symbol          |-> symbol,
     start_date      |-> start_date,
     end_date        |-> end_date,
     initial_capital |-> I(capital),
     final_value     |-> I(capital),
     total_return    |-> I(0),
     win_rate        |-> I(0),
     max_drawdown    |-> I(0),
     sharpe_ratio    |-> I(0),
     trades          |-> << >>]

\* the part of run_backtest after the data.empty test: the strategy is applied,
\* its trades are evaluated and the result is stored
Evaluated(strategy_name, symbol, start_date, end_date, capital, data) ==
    LET trade_list == StrategyTrades(strategies[strategy_name], data, capital)
        perf       == calculate_performance(trade_list, capital)
    IN  IF perf.status = "raise"
        THEN [ret |-> perf, results |-> results]
        ELSE LET stored == [status          |-> "ok",
                            metrics         |-> perf,
                            strategy        |-> strategy_name,
                            symbol          |-> symbol,
                            start_date      |-> start_date,
                            end_date        |-> end_date,
                            initial_capital |-> I(capital),
                            trades          |-> trade_list]
             IN  [ret     |-> stored,
                  results |-> DictPut(results,
                                      << strategy_name, symbol, start_date, end_date >>,
                                      stored)]

\* variant: the NO_DATA result is stored like an evaluated one
run_backtest_stores_no_data(strategy_name, symbol, start_date, end_date, capital) ==
    IF strategy_name \notin DOMAIN strategies
    THEN [ret |-> Raised("ValueError"), results |-> results]
    ELSE LET data == load_historical_data(symbol, start_date, end_date)
         IN  IF Len(data) = 0
             THEN [ret     |-> NoDataResult(strategy_name, symbol, start_date, end_date, capital),
                   results |-> DictPut(results,
                                       << strategy_name, symbol, start_date, end_date >>,
                                       NoDataResult(strategy_name, symbol, start_date,
                                                    end_date, capital))]
             ELSE Evaluated(strategy_name, symbol, start_date, end_date, capital, data)

\* run_backtest: what it returns or raises, and self.results after it
run_backtest(strategy_name, symbol, start_date, end_date, capital) ==
    IF strategy_name \notin DOMAIN strategies
    THEN [ret |-> Raised("ValueError"), results |-> results]
    ELSE LET data == load_historical_data(symbol, start_date, end_date)
         IN  IF Len(data) = 0                                     \* data.empty
             THEN [ret     |-> NoDataResult(strategy_name, symbol, start_date, end_date, capital),
                   results |-> results]
             ELSE Evaluated(strategy_name, symbol, start_date, end_date, capital, data)

register_strategy(name, strategy_func) ==
    /\ strategies' = DictPut(strategies, name, strategy_func)
    /\ UNCHANGED << avars, first, cvars, tvars, bvars, dvars, kvars, hvars, results, bt_call, bt_ret, fvars, lvars >>

RunBacktest(strategy_name, symbol, capital) ==
    LET out == run_backtest(strategy_name, symbol, StartDate, EndDate, capital)
    IN  /\ bt_call' = [status |-> "called", strategy_name |-> strategy_name,
                       symbol |-> symbol, initial_capital |-> capital]
        /\ bt_ret' = out.ret
        /\ results' = out.results
        /\ UNCHANGED << avars, first, cvars, tvars, bvars, dvars, kvars, hvars, strategies, fvars, lvars >>

InitEng ==
    /\ df = << >>
    /\ InitOutputs
    /\ first = NoRun
    /\ InitCache
    /\ InitBacktest

NextEng ==
    \/ \E name \in StrategyNames, f \in StrategyFuncs : register_strategy(name, f)
    \/ \E name \in StrategyNames, sym \in Symbols, c \in Capitals : RunBacktest(name, sym, c)

SpecEng == InitEng /\ [][NextEng]_vars

(***************************************************************************)
(* Properties of the analysis chain.                                       *)
(***************************************************************************)
InRange0To100(x) == IsNum(x) /\ 0 <= x.v /\ x.v <= 100 * Scale

LastClose(d) == d[Len(d)].Close

\* C1: for every strategy name and every non-empty series the value
\* calculate_ai_score returns is a number in the closed range [0, 100],
\* the default taken on a failing sub-score included.
C1_AIScoreInRange ==
    (pc = "ai_done" /\ Len(df) > 0) => InRange0To100(ai_score)

\* a 20-bar series (calculate_momentum_score takes its default behind iloc[-21])
\* was scored under the momentum strategy, away from the neutral 50
C1_Witness ==
    /\ pc = "ai_done"
    /\ Len(df) = 20
    /\ strategy = "momentum"
    /\ InRange0To100(ai_score)
    /\ ai_score # I(50)

\* the balanced blend written out: 0.30, 0.25, 0.25, 0.20 over the four
\* sub-scores with the balanced adjustment, held to [0, 100]
BalancedBlend(d) ==
    PyMin(PyMax(FAdd(FAdd(FAdd(FScale(calculate_technical_score(d), 30, 100),
                               FScale(calculate_momentum_score(d), 25, 100)),
                          FScale(calculate_risk_score(d), 25, 100)),
                     FScale(StrategyBalanced(d), 20, 100)),
                I(0)),
          I(100))

C3_NoExceptionOnNonEmpty ==
    Len(df) > 0 =>
        /\ pc # "raised"
        /\ ~IsRaise(technical_score)
        /\ ~IsRaise(support)
        /\ ~IsRaise(resistance)
        /\ ~IsRaise(overall_score)
        /\ ~IsRaise(ai_score)

\* the whole chain ran to its end on a one-bar series
C3_Witness ==
    /\ pc = "done"
    /\ Len(df) = 1
    /\ IsNum(support)
    /\ IsNum(resistance)
    /\ Len(signals) > 0

\* C4 (as claimed): given an empty series no function of the chain raises.
C4_EmptySeriesNoException ==
    Len(df) = 0 => (pc # "raised" /\ ~IsRaise(support) /\ ~IsRaise(resistance))

\* the cases in which the claim wants the neutral 50.0: fewer than period + 1
\* bars, or no falling close within the window (average loss 0)
RsiFallbackCase(d) ==
    \/ Len(d) < 15
    \/ NonDecreasing(TailN(Close(d), 15))

\* C7 (as claimed): in the fallback cases calculate_rsi returns exactly 50.0.
C7_RsiFallbackIs50 ==
    (pc \in {"support", "resistance", "overall", "signals", "done"} /\ Len(df) > 0
        /\ RsiFallbackCase(df))
        => rsi = I(50)

\* C8 (as claimed): below 20 bars the bands are last close * 1.1 and * 0.9.
C8_BollingerFallback ==
    (pc \in {"support", "resistance", "overall", "signals", "done"} /\ Len(df) > 0
        /\ Len(df) < 20)
        => /\ bb_upper = FScale(LastClose(df), 11, 10)
           /\ bb_lower = FScale(LastClose(df), 9, 10)

\* a moving-average input is undefined: a close is missing within the window
MAUndefined(d) == \E i \in (Len(d) - 19)..Len(d) : i >= 1 /\ IsNaN(d[i].Close)

\* C9: a non-empty series shorter than 20 bars gets support = last close * 0.90
\* and resistance = last close * 1.10, and so does a series whose
\* moving-average input is undefined.
C9_ShortSeriesFallback ==
    (Len(df) > 0 /\ (Len(df) < 20 \/ MAUndefined(df)))
        => /\ pc \in {"resistance", "overall", "signals", "done"}
                => support = FScale(LastClose(df), 9, 10)
           /\ pc \in {"overall", "signals", "done"}
                => resistance = FScale(LastClose(df), 11, 10)

\* both levels were computed for a series of 20 bars or more with a missing
\* close, at a non-zero price
C9_Witness ==
    /\ pc = "overall"
    /\ Len(df) >= 20
    /\ MAUndefined(df)
    /\ IsNum(support)
    /\ support.v > 0
    /\ resistance.v > support.v

\* Simple moving average of the last n closes, the extreme of the last n
\* lows / highs, and the mean of five numbers, written out on raw values.
SumLast(d, n, c) == FoldAdd(Col(d, c), Len(d) - n + 1, Len(d)).v
SmaV(d, n)       == SumLast(d, n, "Close") \div n
LowV(d, n)  == CHOOSE x \in {d[i].Low.v : i \in (Len(d) - n + 1)..Len(d)} :
                   \A i \in (Len(d) - n + 1)..Len(d) : x <= d[i].Low.v
HighV(d, n) == CHOOSE x \in {d[i].High.v : i \in (Len(d) - n + 1)..Len(d)} :
                   \A i \in (Len(d) - n + 1)..Len(d) : x >= d[i].High.v
RangeV(d)   == HighV(d, 20) - LowV(d, 20)
Sma50V(d)   == IF Len(d) >= 50 THEN SmaV(d, 50) ELSE SmaV(d, 20)
Mean5V(a, b, c, e, f) == (a + b + c + e + f) \div 5

\* C10: with at least 20 bars and defined moving averages, support is the mean
\* of the 20-bar SMA, the 50-bar SMA (the 20-bar one below 50 bars), the
\* lowest low of the last 10 bars, high - range * 0.382 and high - range * 0.5
\* over the last 20 bars; resistance mirrors it with the highest high of the
\* last 10 bars, high + range * 0.382 and high + range * 0.5.
C10_FiveCandidateMean ==
    (Len(df) >= 20 /\ ~MAUndefined(df) /\ (Len(df) >= 50 => \A i \in 1..Len(df) : IsNum(df[i].Close)))
        => /\ pc \in {"resistance", "overall", "signals", "done"}
                => support = Num(Mean5V(SmaV(df, 20), Sma50V(df), LowV(df, 10),
                                        HighV(df, 20) - (RangeV(df) * 382) \div 1000,
                                        HighV(df, 20) - (RangeV(df) * 5) \div 10))
           /\ pc \in {"overall", "signals", "done"}
                => resistance = Num(Mean5V(SmaV(df, 20), Sma50V(df), HighV(df, 10),
                                           HighV(df, 20) + (RangeV(df) * 382) \div 1000,
                                           HighV(df, 20) + (RangeV(df) * 5) \div 10))

\* both levels were computed for a series between 20 and 49 bars whose range
\* is not zero
C10_Witness ==
    /\ pc = "overall"
    /\ Len(df) >= 20
    /\ Len(df) < 50
    /\ ~MAUndefined(df)
    /\ RangeV(df) > 0
    /\ IsNum(support)
    /\ IsNum(resistance)

C6_ConcurrentCacheSafe ==
    /\ \A t \in Threads : tpc[t] # "error"
    /\ (\A t \in Threads : tpc[t] \in {"idle", "error"})
          => DOMAIN data_cache = DOMAIN cache_timestamp

(***************************************************************************)
(* Properties of the scores' buckets.                                      *)
(***************************************************************************)
AfterTechScore == pc \in {"support", "resistance", "overall", "signals", "done"}
AfterOverall   == pc \in {"signals", "done"}

\* the buckets as the description states them
StatedMacdBucket(d) ==
    IF FGt(calculate_macd(d).macd, calculate_macd(d).signal) THEN 25
    ELSE IF FLt(calculate_macd(d).macd, calculate_macd(d).signal) THEN 5
    ELSE 15

StatedBollingerBucket(d) ==
    IF FLe(d[Len(d)].Close, bb_lower) THEN 20
    ELSE IF FGe(d[Len(d)].Close, bb_upper) THEN 5
    ELSE 15

StatedVolumeBucket(d) ==
    IF Len(d) >= 5 /\ FGt(Mean(TailN(Volume(d), 5)), FScale(Mean(Volume(d)), 15, 10)) THEN 20
    ELSE IF Len(d) >= 5 /\ FGt(Mean(TailN(Volume(d), 5)), Mean(Volume(d))) THEN 15
    ELSE 10

\* C11 (as claimed): on a non-empty series the enhanced technical score is
\* min(100, RSI bucket + MACD bucket + Bollinger bucket + volume bucket), the
\* RSI bucket being always one of 20 (30 <= RSI <= 70), 30 (RSI < 30), 10
\* (RSI > 70).
C11_EnhancedScoreBuckets ==
    (AfterTechScore /\ Len(df) > 0) =>
        \E r \in {10, 20, 30} :
            /\ r = 20 <=> (FLe(I(30), rsi) /\ FLe(rsi, I(70)))
            /\ r = 30 <=> FLt(rsi, I(30))
            /\ r = 10 <=> FGt(rsi, I(70))
            /\ technical_score =
                   I(MinI(100, r + StatedMacdBucket(df) + StatedBollingerBucket(df)
                                 + StatedVolumeBucket(df)))

\* the 5-bar percentage change: last close against the close four bars earlier
FiveBarChange(d) == PctMove(d[Len(d)].Close, d[Len(d) - 4].Close)

\* C12 (as claimed): with at least 5 bars the trend score is 40 for a change
\* c > 5, 30 for 0 < c <= 5, 20 for -5 <= c <= 0 and 10 only for c < -5, and
\* the overall score is technical_score * 0.6 + price_trend * 0.4.
C12_TrendBuckets ==
    (AfterOverall /\ Len(df) >= 5 /\ IsNum(FiveBarChange(df))) =>
        /\ FGt(FiveBarChange(df), I(5)) => price_trend = I(40)
        /\ (FGt(FiveBarChange(df), I(0)) /\ FLe(FiveBarChange(df), I(5)))
              => price_trend = I(30)
        /\ (FGe(FiveBarChange(df), I(-5)) /\ FLe(FiveBarChange(df), I(0)))
              => price_trend = I(20)
        /\ price_trend = I(10) => FLt(FiveBarChange(df), I(-5))
        /\ overall_score = FAdd(FScale(technical_score, 6, 10), FScale(price_trend, 4, 10))

\* C13 (as claimed): for the 30-bar series rising 1% a bar the price-trend
\* bucket is 40.
C13_Rising30TrendIs40 ==
    (AfterOverall /\ df = Rising30) => price_trend = I(40)

\* the 5-day and the 20-day return of a series of at least 21 bars
FiveDayReturn(d)   == PctMove(d[Len(d)].Close, d[Len(d) - 5].Close)
TwentyDayReturn(d) == PctMove(d[Len(d)].Close, d[Len(d) - 20].Close)

StatedMomentum(short_up, long_up) ==
    IF short_up /\ long_up THEN 80
    ELSE IF short_up THEN 60
    ELSE IF long_up THEN 40
    ELSE 20

\* C14 (as claimed): a series of 20 bars or more gets a momentum score of 80,
\* 60, 40 or 20, and with both windows available it is 80 for both returns
\* positive, 60 for only the 5-day return positive, 40 for only the 20-day
\* return positive, 20 for neither.
C14_MomentumBuckets ==
    (pc = "ai_done" /\ Len(df) >= 20) =>
        /\ momentum_score \in {I(80), I(60), I(40), I(20)}
        /\ Len(df) >= 21 =>
              momentum_score = I(StatedMomentum(FGt(FiveDayReturn(df), I(0)),
                                                FGt(TwentyDayReturn(df), I(0))))

\* C15: for every strategy name and every non-empty series the strategy
\* adjustment is a number in [0, 60].
C15_StrategyAdjustmentRange ==
    (pc = "ai_done" /\ Len(df) > 0) =>
        /\ IsNum(strategy_score)
        /\ 0 <= strategy_score.v
        /\ strategy_score.v <= 60 * Scale

\* the value strategy scored a series whose three components add up to more
\* than 60, and the adjustment is the cap
C15_Witness ==
    /\ pc = "ai_done"
    /\ strategy = "value"
    /\ Len(df) >= 20
    /\ MA20DiscountPoints(df[Len(df)].Close, RollingMeanLast(Close(df), 20))
         + MA50DiscountPoints(df[Len(df)].Close, MA50(df))
         + LowRiskPoints(Volatility(df)) > 60
    /\ strategy_score = I(60)

(***************************************************************************)
(* Properties of the signal list.                                          *)
(***************************************************************************)
Labels == {"strong_buy", "buy", "hold", "caution"}
InSignals(tag) == \E i \in 1..Len(signals) : signals[i] = tag

StatedLabel(score) ==
    IF score.v >= 80 * Scale THEN "strong_buy"
    ELSE IF score.v >= 60 * Scale THEN "buy"
    ELSE IF score.v >= 40 * Scale THEN "hold"
    ELSE "caution"

\* C16: for every overall score and every non-empty series the signal list
\* starts with the label of the score (strong buy from 80, buy from 60, hold
\* from 40, caution below), holds no second label, and the suggestion of
\* analyze_stock_enhanced is the same label.
C16_OneLabelFirst ==
    (pc = "done" /\ Len(df) > 0) =>
        /\ Len(signals) >= 1
        /\ signals[1] = StatedLabel(overall_score)
        /\ \A i \in 2..Len(signals) : signals[i] \notin Labels
        /\ suggestion = signals[1]

\* a score of exactly 80 gave the list holding the label alone
C16_Witness ==
    /\ pc = "done"
    /\ overall_score = I(80)
    /\ signals = << "strong_buy" >>
    /\ suggestion = "strong_buy"

\* C17 (as claimed): the near-support tag is in the list exactly when
\* close <= support * 1.02 and the near-resistance tag exactly when
\* close >= resistance * 0.98, each whatever the other.
C17_LevelTagsIndependent ==
    (pc = "done" /\ Len(df) > 0 /\ IsNum(df[Len(df)].Close)
        /\ IsNum(support) /\ IsNum(resistance)
        /\ support.v > 0 /\ resistance.v > 0) =>
        /\ InSignals("near_support")
              <=> FLe(df[Len(df)].Close, FScale(support, 102, 100))
        /\ InSignals("near_resistance")
              <=> FGe(df[Len(df)].Close, FScale(resistance, 98, 100))

\* C18 (as claimed): the oversold tag is in the list for every RSI below 30,
\* an RSI of exactly 0 included, the overbought tag for every RSI above 70,
\* and neither for an RSI within [30, 70].
C18_RsiTags ==
    (pc = "done" /\ Len(df) > 0 /\ IsNum(calculate_rsi(df))) =>
        /\ InSignals("rsi_oversold") <=> calculate_rsi(df).v < 30 * Scale
        /\ InSignals("rsi_overbought") <=> calculate_rsi(df).v > 70 * Scale

(***************************************************************************)
(* Properties of the backtest evaluation.                                  *)
(***************************************************************************)
\* C19: for every initial capital, the empty trade list gives final_value =
\* the capital and total_return = win_rate = max_drawdown = sharpe_ratio = 0,
\* without an error.
C19_EmptyTradesBaseline ==
    (performance # NotCalled /\ trades = << >>) =>
        /\ performance.status = "ok"
        /\ performance.final_value = Num(initial_capital * Scale)
        /\ performance.total_return = Num(0)
        /\ performance.win_rate = Num(0)
        /\ performance.max_drawdown = Num(0)
        /\ performance.sharpe_ratio = Num(0)

\* the empty list was evaluated with a capital of 0
C19_Witness ==
    /\ trades = << >>
    /\ initial_capital = 0
    /\ performance # NotCalled
    /\ performance.status = "ok"

Wins(trade_list) ==
    Cardinality({i \in 1..Len(trade_list) :
                    trade_list[i].has_profit /\ trade_list[i].profit > 0})

\* C20 (as claimed): for a non-empty trade list, trades given by their
\* profit alone included, the evaluation succeeds and win_rate is the number
\* of trades with a recorded profit > 0 over the number of trades.
C20_WinRate ==
    (performance # NotCalled /\ Len(trades) > 0 /\ initial_capital > 0) =>
        /\ performance.status = "ok"
        /\ performance.win_rate = Num((Wins(trades) * Scale) \div Len(trades))

(***************************************************************************)
(* Properties of calculate_max_drawdown.                                   *)
(***************************************************************************)
RunningPeak(curve, i) ==
    CHOOSE m \in {curve[j] : j \in 1..i} : \A j \in 1..i : curve[j] <= m

NonDecreasing_curve(curve) ==
    \A i \in 1..Len(curve), j \in 1..Len(curve) : i <= j => curve[i] <= curve[j]

\* the decline (peak_i - curve[i]) / peak_i at position i
DeclineAt(curve, i) ==
    FDiv(FSub(I(RunningPeak(curve, i)), I(curve[i])), I(RunningPeak(curve, i)))

\* C21 (as claimed): the result is the largest decline (peak_i - curve[i]) /
\* peak_i over the positions i, peak_i the running maximum of curve[0..i];
\* it is 0 for the empty curve and for every non-decreasing curve, and lies
\* in [0, 1] for every curve of positive values.
C21_MaxDrawdown ==
    (max_dd # None) =>
        /\ max_dd.k = "num"
        /\ Len(equity_curve) > 0 =>
              /\ \E i \in 1..Len(equity_curve) : max_dd = DeclineAt(equity_curve, i)
              /\ \A i \in 1..Len(equity_curve) : DeclineAt(equity_curve, i).v <= max_dd.v
        /\ NonDecreasing_curve(equity_curve) => max_dd = Num(0)
        /\ (\A i \in 1..Len(equity_curve) : equity_curve[i] > 0) =>
              (0 <= max_dd.v /\ max_dd.v <= Scale)

(***************************************************************************)
(* Support against resistance.                                             *)
(***************************************************************************)
\* every bar has finite, non-negative prices and high >= low
WellFormed(d) ==
    \A i \in 1..Len(d) :
        /\ IsNum(d[i].Close) /\ IsNum(d[i].High) /\ IsNum(d[i].Low)
        /\ d[i].Close.v >= 0 /\ d[i].Low.v >= 0
        /\ d[i].High.v >= d[i].Low.v

C23_TradesLeaveEquity ==
    (/\ performance # NotCalled
     /\ Len(trades) > 0
     /\ \A i \in 1..Len(trades) : trades[i].type \in {"BUY", "SELL"})
        => /\ performance.status = "ok"
           /\ performance.final_value = Num(initial_capital * Scale)
           /\ performance.total_return = Num(0)
           /\ performance.max_drawdown = Num(0)
           /\ performance.sharpe_ratio = Num(0)

(***************************************************************************)
(* Properties of run_backtest.                                             *)
(***************************************************************************)
\* a step is a run_backtest call that differs from the last one in its
\* arguments or in its outcome
RunStep == << bt_call, bt_ret >>' # << bt_call, bt_ret >>

\* C24: a run_backtest call that names an unregistered strategy raises
\* ValueError, one that finds no historical data returns status NO_DATA with
\* final_value = the initial capital; both leave self.results and
\* self.strategies unchanged, and self.results changes only in a call that
\* evaluated trades.
C24_FailedRunsStoreNothing ==
    [][ /\ (RunStep /\ bt_call'.strategy_name \notin DOMAIN strategies)
            => /\ bt_ret' = Raised("ValueError")
               /\ results' = results
               /\ strategies' = strategies
        /\ (/\ RunStep
            /\ bt_call'.strategy_name \in DOMAIN strategies
            /\ Len(load_historical_data(bt_call'.symbol, StartDate, EndDate)) = 0)
            => /\ bt_ret'.status = "NO_DATA"
               /\ bt_ret'.final_value = Num(bt_call'.initial_capital * Scale)
               /\ results' = results
               /\ strategies' = strategies
        /\ (results' # results) => (RunStep /\ bt_ret'.status = "ok")
      ]_vars

\* a call found no data after another call had named an unregistered strategy
\* and two strategies were registered
C24_Witness ==
    /\ bt_call # NotCalled
    /\ bt_ret.status = "NO_DATA"
    /\ bt_ret.final_value = Num(10000 * Scale)
    /\ Cardinality(DOMAIN strategies) = 2
    /\ bt_call.strategy_name \in DOMAIN strategies
    /\ results = EmptyDict

(***************************************************************************)
(* Properties of the cache under a single caller.                          *)
(***************************************************************************)
\* a step is a get_cached_data call
GetStep == cache_ret' # cache_ret

\* fewer than CACHE_EXPIRE_MINUTES * 60 seconds have passed since key was stored
StoredRecently(key) ==
    /\ key \in DOMAIN last_store
    /\ (now - last_store[key].at) * 60 < CACHE_EXPIRE_MINUTES * 60

\* C25: get_cached_data(k) returns the value most recently stored for k if
\* and only if fewer than CACHE_EXPIRE_MINUTES * 60 seconds have passed since
\* that store; otherwise it returns None, and an expired entry is then in
\* neither _data_cache nor _cache_timestamp.
C25_CacheExpiry ==
    [][ GetStep =>
          LET key == cache_ret'.key
          IN  IF StoredRecently(key)
              THEN /\ cache_ret'.value = last_store[key].data
                   /\ data_cache' = data_cache
                   /\ cache_timestamp' = cache_timestamp
              ELSE /\ cache_ret'.value = "None"
                   /\ key \notin DOMAIN data_cache'
                   /\ key \notin DOMAIN cache_timestamp'
      ]_vars

\* a get found its entry expired, exactly CACHE_EXPIRE_MINUTES after the store
C25_Witness ==
    /\ cache_ret # NotCalled
    /\ cache_ret.value = "None"
    /\ cache_ret.key \in DOMAIN last_store
    /\ cache_ret.at - last_store[cache_ret.key].at = CACHE_EXPIRE_MINUTES
    /\ cache_ret.key \notin DOMAIN data_cache

(***************************************************************************)
(* Properties of the stock_app_hybrid cache.                               *)
(***************************************************************************)
\* C26 (as claimed): get_cached_data(key) returns a value only if that key's
\* own value was stored less than CACHE_DURATION seconds ago; storing another
\* key does not extend the lifetime of an older entry.
C26_OwnKeyLifetime ==
    [][ (GetStep /\ cache_ret'.value # "None") =>
          LET key == cache_ret'.key
          IN  /\ key \in DOMAIN last_store
              /\ hybrid_time - last_store[key].at < CACHE_DURATION
      ]_vars

(***************************************************************************)
(* Properties of the API call counters.                                    *)
(***************************************************************************)
\* C27 (as claimed): api_call_count['tushare'] never exceeds 5 and
\* api_call_count['alpha_vantage'] never exceeds 25.
C27_CountersWithinLimits ==
    /\ api_call_count.tushare <= TUSHARE_LIMIT
    /\ api_call_count.alpha_vantage <= ALPHA_VANTAGE_LIMIT

(***************************************************************************)
(* Properties of the favorites groups.  Every step is one call, described  *)
(* by the primed fav_ret.                                                  *)
(***************************************************************************)
\* the call returned False because its group is missing (for create_group:
\* because it exists already)
RefusedForGroup ==
    /\ fav_ret'.result = FALSE
    /\ IF fav_ret'.op = "create_group"
       THEN fav_ret'.group_id \in DOMAIN favorites_groups
       ELSE fav_ret'.group_id \notin DOMAIN favorites_groups

\* C28: the group "default" exists after every sequence of calls;
\* delete_group("default") returns False and changes nothing; a call that
\* returns False because its group does not exist or exists already changes
\* no group.
C28_DefaultGroupKept ==
    [][ /\ "default" \in DOMAIN favorites_groups'
        /\ (fav_ret'.op = "delete_group" /\ fav_ret'.group_id = "default")
              => (fav_ret'.result = FALSE /\ favorites_groups' = favorites_groups)
        /\ RefusedForGroup => favorites_groups' = favorites_groups
      ]_vars

\* delete_group("default") was refused while a second group and a stock in
\* the default group existed
C28_Witness ==
    /\ fav_ret # NotCalled
    /\ fav_ret.op = "delete_group"
    /\ fav_ret.group_id = "default"
    /\ fav_ret.result = FALSE
    /\ DOMAIN favorites_groups = {"default", "tech"}
    /\ Len(favorites_groups["default"].stocks) > 0

\* the positions of the group's entries with this symbol
Holding(groups, group_id, symbol) ==
    IF group_id \in DOMAIN groups
    THEN {i \in 1..Len(groups[group_id].stocks) : groups[group_id].stocks[i].symbol = symbol}
    ELSE {}

\* the entries of a list other than those with this symbol, in their order
Others(stocks, symbol) == SelectSeq(stocks, LAMBDA e : e.symbol # symbol)

\* C29 (as claimed): no group holds two entries with the same symbol;
\* add_stock_to_group on a symbol already in the group keeps the number of
\* entries; remove_stock_from_group returns True exactly when the symbol was
\* in the group and leaves the other entries in their order.
C29_OneEntryPerSymbol ==
    [][ /\ \A g \in DOMAIN favorites_groups', sym \in StockSymbols :
              Cardinality(Holding(favorites_groups', g, sym)) <= 1
        /\ (/\ fav_ret'.op = "add_stock_to_group"
            /\ Holding(favorites_groups, fav_ret'.group_id, fav_ret'.symbol) # {})
              => Len(favorites_groups'[fav_ret'.group_id].stocks)
                    = Len(favorites_groups[fav_ret'.group_id].stocks)
        /\ (fav_ret'.op = "remove_stock_from_group")
              => /\ fav_ret'.result = TRUE
                      <=> Holding(favorites_groups, fav_ret'.group_id, fav_ret'.symbol) # {}
                 /\ fav_ret'.group_id \in DOMAIN favorites_groups
                      => favorites_groups'[fav_ret'.group_id].stocks
                            = Others(favorites_groups[fav_ret'.group_id].stocks, fav_ret'.symbol)
      ]_vars

\* C29 (amended): as above, but remove_stock_from_group returns True exactly
\* when the symbol was in the group and _save_favorites wrote the file.
C29_OneEntryPerSymbolSaved ==
    [][ /\ \A g \in DOMAIN favorites_groups', sym \in StockSymbols :
              Cardinality(Holding(favorites_groups', g, sym)) <= 1
        /\ (/\ fav_ret'.op = "add_stock_to_group"
            /\ Holding(favorites_groups, fav_ret'.group_id, fav_ret'.symbol) # {})
              => Len(favorites_groups'[fav_ret'.group_id].stocks)
                    = Len(favorites_groups[fav_ret'.group_id].stocks)
        /\ (fav_ret'.op = "remove_stock_from_group")
              => /\ fav_ret'.result = TRUE
                      <=> (/\ fav_ret'.saved
                           /\ Holding(favorites_groups, fav_ret'.group_id, fav_ret'.symbol) # {})
                 /\ fav_ret'.group_id \in DOMAIN favorites_groups
                      => favorites_groups'[fav_ret'.group_id].stocks
                            = Others(favorites_groups[fav_ret'.group_id].stocks, fav_ret'.symbol)
      ]_vars

\* a symbol was removed from a group that keeps another entry, updated before
C29_Witness ==
    /\ fav_ret # NotCalled
    /\ fav_ret.op = "remove_stock_from_group"
    /\ fav_ret.result = TRUE
    /\ fav_ret.symbol = "AAPL"
    /\ Len(favorites_groups[fav_ret.group_id].stocks) = 1
    /\ favorites_groups[fav_ret.group_id].stocks[1] =
          [symbol |-> "600519", name |-> "Apple", note |-> ""]

(***************************************************************************)
(* Properties of the alert list.                                           *)
(***************************************************************************)
\* a step is an AlertSystem call
AlertStep == << alerts, alert_ret >>' # << alerts, alert_ret >>

\* C30 (as claimed): whenever remove_alert(id) returns True no stored alert
\* has that id any more, also when two alerts for the same symbol and type
\* were added within the same second, and the remaining alerts are unchanged.
C30_RemovedIdGone ==
    [][ (AlertStep /\ alert_ret'.op = "remove_alert" /\ alert_ret'.result = TRUE)
          => /\ \A i \in 1..Len(alerts') : alerts'[i].id # alert_ret'.id
             /\ alerts' = SelectSeq(alerts, LAMBDA a : a.id # alert_ret'.id)
      ]_vars

====
